---- MODULE Spec2Model ----
(***************************************************************************)
(* Model of the Confidence-Aware Google Workspace agent.                   *)
(*                                                                         *)
(*   SpecAgent  BaseAgent.run, the ReAct loop (src/agents/base_agent.py)   *)
(*   SpecPlan   ExecutionPlanner.execute_plan, the wave scheduler          *)
(*              (src/workflows/execution_planner.py)                       *)
(*   SpecApp    the two command-line loops with the stores they drive:     *)
(*              Vector Store, Email Full-Body Storage, Conversation        *)
(*              Memory and the Email Indexer Service                       *)
(*   SpecMemory ConversationMemory driven on its own                       *)
(*              (src/memory/conversation_memory.py)                        *)
(*   SpecWorkflow     EmailAssistant.run, the fixed pipeline's graph       *)
(*                    (src/workflows/email_assistant.py)                   *)
(*   SpecRetry        the retried operations of AzureOpenAIClient          *)
(*                    (src/api/azure_openai.py)                            *)
(*   SpecService      EmailIndexerService.start / stop and their loops     *)
(*                    (src/services/email_indexer.py)                      *)
(*   SpecGmail        GmailClient (src/api/gmail_client.py)                *)
(*   SpecVectorStore  the public operations of VectorStore                 *)
(*                    (src/memory/vector_store.py)                         *)
(*   SpecDetails      AutonomousEmailAgent._get_email_details              *)
(*                    (src/workflows/autonomous_agent.py)                  *)
(*   SpecQuery        AutonomousEmailAgent.process_query                   *)
(*   SpecDecision     DecisionEngine.analyze_query                         *)
(*                    (src/workflows/decision_engine.py)                   *)
(*   SpecChunk        chunk_text (src/utils/text_processing.py)            *)
(*   SpecCategorize   EmailIndexerService._categorize_email                *)
(*   SpecAuth         _authenticate of the Gmail, Calendar and Tasks       *)
(*                    clients (src/api)                                    *)
(*   SpecServiceFair  SpecService with each loop scheduled fairly          *)
(*   SpecPipeline     EmailAssistant.run with the flags analyze_query      *)
(*                    returns                                              *)
(*   SpecRagSearch    AutonomousEmailAgent._search_emails_rag              *)
(***************************************************************************)
EXTENDS Integers, Sequences, FiniteSets, TLC

VARIABLES
    \* ---- BaseAgent.run ----
    a_pc,            \* position in run: "loop", "forced", "decide", "tool", "done"
    iteration,       \* the local variable iteration
    tool_results,    \* the list tool_results: records [tool, result]
    thoughts,        \* the list thoughts, one entry per recorded thought
    a_tool,          \* tool_name of the use_tool decision being executed
    a_return,        \* the dictionary returned by run
    forced_calls,    \* history: decision calls made with force_synthesize=True
    a_raised,        \* history: where an exception that ended run came from
    a_reply          \* history: kind of the LLM's reply to the latest decision call

VARIABLES
    \* ---- ExecutionPlanner.execute_plan ----
    p_pc,            \* "build", "loop", "wave", "returned"
    tasks,           \* the task list: records [task_id, dependencies, status]
    completed_tasks, \* the local set completed_tasks (task ids)
    results,         \* the keys of the local map results (task ids)
    ready_tasks,     \* indices into tasks of the wave being executed
    final_result,    \* the dictionary returned by execute_plan
    p_ran,           \* history: indices of the tasks that ever entered running
    p_runs           \* history: number of execute_plan calls made on the list

VARIABLES
    \* ---- the command loop ----
    cli_mode,        \* "fixed" (main.py), "autonomous" (main_autonomous.py), "library"
    cli_pc,          \* "prompt", "confirm", "clear_storage", "indexing", "query", "exited", "api"
    cli_line,        \* history: the line read at the confirmation prompt
    \* ---- Vector Store (one Chroma collection, several VectorStore objects) ----
    collection,      \* the documents of the collection: metadata records
    stale_handles,   \* VectorStore objects whose collection handle is dangling
    \* ---- Email Full-Body Storage ----
    es_storage,      \* per EmailStorage object: the ids in its _storage map
    storage_file,    \* the ids in the JSON file
    \* ---- Conversation Memory ----
    messages,        \* the list messages: records [role, n]
    summary,         \* the attribute summary ("None" when absent)
    message_count,   \* the attribute message_count
    m_clock,         \* history: messages ever added
    \* ---- Email Indexer Service ----
    bg_pc,           \* the service's task: "absent", "scheduled", "pass", "sleeping"
    is_running,      \* the attribute is_running
    last_index_time, \* the attribute last_index_time, as a counter of updates
    pass,            \* per run_indexing coroutine: its locals and position
    stats,           \* per run_indexing coroutine: the statistics last returned
    running,         \* the coroutine in the middle of a segment ("none": all suspended)
    passes_begun     \* history: run_indexing calls made

VARIABLES
    \* ---- EmailAssistant.run (the LangGraph workflow) ----
    w_pc,            \* "idle", the node about to run, "END", "returned"
    w_state,         \* the AgentState fields the routing and the result depend on
    w_path,          \* history: the nodes run so far in this run
    w_runs           \* history: run calls made

VARIABLES
    \* ---- AzureOpenAIClient calls under @retry ----
    r_pc,            \* "idle", "attempt", "backoff", "returned", "raised"
    r_op,            \* the operation called and whether its input is empty
    r_outcomes,      \* history: outcome of each attempt of the current call
    r_waits,         \* history: seconds waited before each further attempt
    r_result,        \* what the caller got
    r_log            \* history: [op, attempts, result] of the calls made

VARIABLES
    \* ---- EmailIndexerService.start / stop and the loops they leave ----
    svc_loops,       \* per start() call that went ahead: its position and history
    svc_started      \* number of those calls

VARIABLES
    \* ---- GmailClient ----
    service,          \* self.service is set (authentication went through)
    g_pc,             \* "idle", "listing", "getting", "returned"
    g_op,             \* the operation in progress
    g_listed,         \* messages the listing returned
    g_pos,            \* search_emails: index of the message being fetched
    g_parsed,         \* search_emails: messages fetched and parsed so far
    g_result,         \* what the operation gave its caller
    g_provider_calls, \* provider calls made by the operation
    g_failure,        \* history: the provider failure met by the operation
    g_ops             \* operations called

VARIABLES
    \* ---- VectorStore operations called directly ----
    vs_last,          \* history: the latest operation and the handle it ran on
    vs_ops            \* operations called

VARIABLES
    \* ---- AutonomousEmailAgent._get_email_details ----
    d_last,           \* history: the latest request and its response
    d_ops             \* steps taken

VARIABLES
    \* ---- AutonomousEmailAgent.process_query ----
    q_pc,             \* "idle", "history", "agent", "learn", "returned"
    q_response,       \* what self.agent.run returned
    q_ret,            \* what process_query gave its caller
    q_failed,         \* history: the stage of this call in which an error was raised
    q_learn_calls,    \* learn_from_interaction calls of this call
    q_runs            \* process_query calls

VARIABLES
    \* ---- DecisionEngine.analyze_query ----
    de_pc,
    de_query,
    de_reply,
    de_failed,
    de_result,
    de_runs

VARIABLES
    \* ---- chunk_text as a call ----
    ch_pc,
    ch_input,
    ch_chunks

VARIABLES
    \* ---- EmailIndexerService._categorize_email as a call ----
    cat_pc,
    cat_input,
    cat_result

VARIABLES
    \* ---- GmailClient / CalendarClient / TasksClient._authenticate ----
    au_pc,
    au_client,
    au_token,
    au_secrets,
    au_creds,
    au_in_block,
    au_service,
    au_written

VARIABLES
    \* ---- AutonomousEmailAgent._search_emails_rag ----
    rs_pc,
    rs_collection,
    rs_emails

agentVars == << a_pc, iteration, tool_results, thoughts, a_tool, a_return,
                forced_calls, a_raised, a_reply >>
planVars  == << p_pc, tasks, completed_tasks, results, ready_tasks, final_result,
                p_ran, p_runs >>

appVars   == << cli_mode, cli_pc, cli_line, collection, stale_handles,
                es_storage, storage_file, messages, summary, message_count, m_clock,
                bg_pc, is_running, last_index_time, pass, stats, running,
                passes_begun >>

wfVars    == << w_pc, w_state, w_path, w_runs >>

retryVars == << r_pc, r_op, r_outcomes, r_waits, r_result, r_log >>
svcVars   == << svc_loops, svc_started >>
gmailVars == << service, g_pc, g_op, g_listed, g_pos, g_parsed, g_result, g_provider_calls,
                g_failure, g_ops >>

vsVars    == << vs_last, vs_ops >>

detVars   == << d_last, d_ops >>

qVars     == << q_pc, q_response, q_ret, q_failed, q_learn_calls, q_runs >>

deVars == << de_pc, de_query, de_reply, de_failed, de_result, de_runs >>

chVars == << ch_pc, ch_input, ch_chunks >>

catVars == << cat_pc, cat_input, cat_result >>

auVars == << au_pc, au_client, au_token, au_secrets, au_creds, au_in_block, au_service, au_written >>

rsVars == << rs_pc, rs_collection, rs_emails >>

vars == << agentVars, planVars, appVars, wfVars, retryVars, svcVars, gmailVars, vsVars, detVars, qVars, deVars, chVars, catVars, auVars,
          rsVars >>

notAgent == << planVars, appVars, wfVars, retryVars, svcVars, gmailVars, vsVars, detVars, qVars, deVars, chVars, catVars, auVars, rsVars >>
notPlan  == << agentVars, appVars, wfVars, retryVars, svcVars, gmailVars, vsVars, detVars, qVars, deVars, chVars, catVars, auVars, rsVars >>
notApp   == << agentVars, planVars, wfVars, retryVars, svcVars, gmailVars, vsVars, detVars, qVars, deVars, chVars, catVars, auVars, rsVars >>
notRetry == << agentVars, planVars, appVars, wfVars, svcVars, gmailVars, vsVars, detVars, qVars, deVars, chVars, catVars, auVars, rsVars >>
notGmail == << agentVars, planVars, appVars, wfVars, retryVars, svcVars, vsVars, detVars, qVars, deVars, chVars, catVars, auVars, rsVars >>
notSvc   == << agentVars, planVars, wfVars, retryVars, gmailVars, vsVars, detVars, qVars, cli_mode, cli_pc, cli_line,
               collection, stale_handles, es_storage, storage_file, messages, summary,
               message_count, m_clock, bg_pc, last_index_time, pass, stats, running,
               passes_begun, deVars, chVars, catVars, auVars, rsVars >>
notWf    == << agentVars, planVars, retryVars, svcVars, gmailVars, vsVars, detVars, qVars, cli_mode, cli_pc, cli_line, collection, stale_handles,
               es_storage, storage_file, bg_pc, is_running, last_index_time, pass, stats,
               running, passes_begun, deVars, chVars, catVars, auVars, rsVars >>
notVs    == << agentVars, planVars, wfVars, retryVars, svcVars, gmailVars, detVars, qVars, cli_mode, cli_pc,
               cli_line, messages, summary, message_count, m_clock, bg_pc, is_running,
               last_index_time, pass, stats, running, passes_begun, deVars, chVars, catVars, auVars, rsVars >>
notDet   == << agentVars, planVars, wfVars, retryVars, svcVars, gmailVars, vsVars, qVars, cli_mode,
               cli_pc, cli_line, collection, stale_handles, messages, summary, message_count,
               m_clock, bg_pc, is_running, last_index_time, pass, stats, running,
               passes_begun, deVars, chVars, catVars, auVars, rsVars >>
notDecision == << agentVars, planVars, appVars, wfVars, retryVars, svcVars, gmailVars, vsVars, detVars, qVars, chVars, catVars, auVars, rsVars >>
notQuery == << agentVars, planVars, wfVars, retryVars, svcVars, gmailVars, vsVars, detVars,
               cli_mode, cli_pc, cli_line, collection, stale_handles, es_storage,
               storage_file, bg_pc, is_running, last_index_time, pass, stats, running,
               passes_begun, deVars, chVars, catVars, auVars, rsVars >>
notCategorize == << agentVars, planVars, appVars, wfVars, retryVars, svcVars, gmailVars, vsVars, detVars, qVars, deVars, chVars, auVars, rsVars >>
notChunk == << agentVars, planVars, appVars, wfVars, retryVars, svcVars, gmailVars, vsVars, detVars, qVars, deVars, catVars, auVars, rsVars >>
notRagSearch == << agentVars, planVars, appVars, wfVars, retryVars, svcVars, gmailVars, vsVars, detVars, qVars, deVars, chVars, catVars, auVars >>
notAuth == << agentVars, planVars, appVars, wfVars, retryVars, svcVars, gmailVars, vsVars, detVars, qVars, deVars, chVars, catVars, rsVars >>

(***************************************************************************)
(*                             BaseAgent.run                               *)
(***************************************************************************)

max_iterations == 10

\* Tools registered on the agent, and the tool names a decision may carry:
\* the LLM is free to name a tool that was never registered.
available_tools == {"search_emails_rag"}
ToolNames       == {"search_emails_rag", "lookup_contact"}

\* What the LLM call behind one decision can produce: a JSON decision of one
\* of the three documented actions, a reply that is not JSON ("malformed"),
\* a reply that is JSON but carries no action, or a failure of the call
\* itself (generate_response re-raises after its retries).
LLMReplies ==
    {[kind |-> "final_answer",        tool |-> "-"],
     [kind |-> "think",               tool |-> "-"],
     [kind |-> "malformed",           tool |-> "-"],
     [kind |-> "json_without_action", tool |-> "-"],
     [kind |-> "llm_error",           tool |-> "-"]}
    \cup {[kind |-> "use_tool", tool |-> t] : t \in ToolNames}

\* The decision call raises into run: the LLM call itself failed, or (line
\* 313) the reply parsed as JSON but decision['action'] does not exist, which
\* is a KeyError/TypeError that `except json.JSONDecodeError` does not catch.
DecisionRaises(reply) == reply.kind \in {"llm_error", "json_without_action"}

\* _get_agent_decision: the parsed decision, or the fallback final answer
\* when json.loads fails.  (Defined for the replies that do not raise.)
GetAgentDecision(reply) ==
    IF reply.kind = "malformed"
    THEN [action |-> "final_answer", content |-> "fallback_answer", tool_name |-> "-"]
    ELSE [action |-> reply.kind, content |-> "llm_answer", tool_name |-> reply.tool]

\* _execute_tool: the value recorded as the tool call's result.  outcome is
\* what the registered function does when called: "returns" or "raises".
ExecuteTool(tool_name, outcome) ==
    IF tool_name \notin available_tools THEN "error_string"
    ELSE IF outcome = "raises" THEN "error_string"
    ELSE "dict"

NoReturn == [keys |-> {}, answer |-> "none", completed |-> FALSE, forced_stop |-> FALSE]

ForcedFinalReturn(content) ==
    [keys |-> {"answer", "tool_calls", "iterations", "thoughts", "completed", "forced_stop"},
     answer |-> content, completed |-> TRUE, forced_stop |-> TRUE]

FinalReturn(content) ==
    [keys |-> {"answer", "tool_calls", "iterations", "thoughts", "completed"},
     answer |-> content, completed |-> TRUE, forced_stop |-> FALSE]

ExhaustedReturn ==
    [keys |-> {"answer", "tool_calls", "iterations", "completed"},
     answer |-> "exhausted_iterations", completed |-> FALSE, forced_stop |-> FALSE]

ErrorReturn ==
    [keys |-> {"answer", "error", "completed"},
     answer |-> "internal_error", completed |-> FALSE, forced_stop |-> FALSE]

\* The loop guard of lines 83-87: the last three tool calls name one tool.
LastThreeSame(tr) ==
    /\ Len(tr) >= 3
    /\ tr[Len(tr)].tool = tr[Len(tr) - 1].tool
    /\ tr[Len(tr)].tool = tr[Len(tr) - 2].tool

\* rag_results of line 145: the recorded calls of search_emails_rag.
RagResults(tr) == SelectSeq(tr, LAMBDA r : r.tool = "search_emails_rag")

\* Lines 143-148: rag_results[0]['result'].get('count', 0) is evaluated when
\* iteration >= 2 and a search_emails_rag call is on record; .get does not
\* exist on a string, so an error-string first result raises AttributeError.
SufficiencyCheckRaises(it, tr) ==
    /\ it >= 2
    /\ Len(tr) > 0
    /\ Len(RagResults(tr)) > 0
    /\ RagResults(tr)[1].result = "error_string"

AgentInit ==
    /\ a_pc = "loop"
    /\ iteration = 0
    /\ tool_results = << >>
    /\ thoughts = << >>
    /\ a_tool = "-"
    /\ a_return = NoReturn
    /\ forced_calls = 0
    /\ a_raised = "none"
    /\ a_reply = "none"

\* while iteration < self.max_iterations: iteration += 1, then the loop check.
AgentLoopEnter ==
    /\ a_pc = "loop"
    /\ iteration < max_iterations
    /\ iteration' = iteration + 1
    /\ IF iteration' > 3 /\ LastThreeSame(tool_results)
       THEN a_pc' = "forced" /\ forced_calls' = forced_calls + 1
       ELSE a_pc' = "decide" /\ UNCHANGED forced_calls
    /\ UNCHANGED << tool_results, thoughts, a_tool, a_return, a_raised, a_reply >>
    /\ UNCHANGED notAgent

\* The loop condition fails: the canned answer of lines 155-160.
AgentExhausted ==
    /\ a_pc = "loop"
    /\ iteration >= max_iterations
    /\ a_pc' = "done"
    /\ a_return' = ExhaustedReturn
    /\ UNCHANGED << iteration, tool_results, thoughts, a_tool, forced_calls, a_raised,
                    a_reply >>
    /\ UNCHANGED notAgent

\* Lines 90-105: the decision call made with force_synthesize=True.  Only a
\* final_answer returns; any other decision falls through to line 108.
AgentForcedDecision ==
    /\ a_pc = "forced"
    /\ \E reply \in LLMReplies :
         /\ a_reply' = reply.kind
         /\ IF DecisionRaises(reply)
            THEN /\ a_pc' = "done"
                 /\ a_return' = ErrorReturn
                 /\ a_raised' = "decision_call"
            ELSE LET decision == GetAgentDecision(reply) IN
                 IF decision.action = "final_answer"
                 THEN /\ a_pc' = "done"
                      /\ a_return' = ForcedFinalReturn(decision.content)
                      /\ UNCHANGED a_raised
                 ELSE /\ a_pc' = "decide"
                      /\ UNCHANGED << a_return, a_raised >>
    /\ UNCHANGED << iteration, tool_results, thoughts, a_tool, forced_calls >>
    /\ UNCHANGED notAgent

\* Lines 108-123 and 151-152: the ordinary decision call of a turn.
AgentDecision ==
    /\ a_pc = "decide"
    /\ \E reply \in LLMReplies :
         /\ a_reply' = reply.kind
         /\ IF DecisionRaises(reply)
            THEN /\ a_pc' = "done"
                 /\ a_return' = ErrorReturn
                 /\ a_raised' = "decision_call"
                 /\ UNCHANGED << thoughts, a_tool >>
            ELSE LET decision == GetAgentDecision(reply) IN
                 CASE decision.action = "final_answer" ->
                        /\ a_pc' = "done"
                        /\ a_return' = FinalReturn(decision.content)
                        /\ UNCHANGED << thoughts, a_tool, a_raised >>
                   [] decision.action = "use_tool" ->
                        /\ a_pc' = "tool"
                        /\ a_tool' = decision.tool_name
                        /\ UNCHANGED << thoughts, a_return, a_raised >>
                   [] OTHER ->
                        /\ a_pc' = "loop"
                        /\ thoughts' = Append(thoughts, "thought")
                        /\ UNCHANGED << a_tool, a_return, a_raised >>
    /\ UNCHANGED << iteration, tool_results, forced_calls >>
    /\ UNCHANGED notAgent

\* Lines 126-148: execute the tool, record its result and the thought, then
\* the sufficiency check; an exception there is caught at line 162.
AgentExecuteTool ==
    /\ a_pc = "tool"
    /\ \E outcome \in {"returns", "raises"} :
         LET result == ExecuteTool(a_tool, outcome)
             tr     == Append(tool_results, [tool |-> a_tool, result |-> result])
         IN /\ tool_results' = tr
            /\ thoughts' = Append(thoughts, "thought")
            /\ IF SufficiencyCheckRaises(iteration, tr)
               THEN /\ a_pc' = "done"
                    /\ a_return' = ErrorReturn
                    /\ a_raised' = "tool_result"
               ELSE /\ a_pc' = "loop"
                    /\ UNCHANGED << a_return, a_raised >>
    /\ a_tool' = "-"
    /\ UNCHANGED << iteration, forced_calls, a_reply >>
    /\ UNCHANGED notAgent

\* The agent's variables while another component is being exercised.
AgentIdle == AgentInit

NextAgent ==
    \/ AgentLoopEnter
    \/ AgentExhausted
    \/ AgentForcedDecision
    \/ AgentDecision
    \/ AgentExecuteTool

(***************************************************************************)
(*                     ExecutionPlanner.execute_plan                       *)
(***************************************************************************)

\* Bounds of the planner model.
MaxTasks == 3        \* longest task list
MaxRuns  == 1        \* execute_plan calls made on one list

\* Task ids and dependency lists a generated plan may carry.  The ids come
\* from the LLM's JSON, so two tasks may carry the same id, a task may name
\* itself, and a dependency may name an id no task of the list has.
TaskIds  == {"A", "B", "C"}
DepLists == {{}, {"A"}, {"A", "B"}, {"C"}}

NoResult == [returned |-> FALSE, success |-> FALSE, completed_tasks |-> 0, total_tasks |-> 0]

\* ExecutionTask(...): status defaults to TaskStatus.PENDING.
ExecutionTask(id, deps) == [task_id |-> id, dependencies |-> deps, status |-> "pending"]

\* The list comprehension of lines 207-211.
ReadyTasksAnyDepMet(ts, done) ==
    {i \in 1..Len(ts) : /\ ts[i].status = "pending"
                        /\ (ts[i].dependencies = {} \/ ts[i].dependencies \cap done # {})}

ReadyTasks(ts, done) ==
    {i \in 1..Len(ts) : /\ ts[i].status = "pending"
                        /\ ts[i].dependencies \subseteq done}

\* Lines 215-219: every task still pending is marked blocked.
BlockPendingSkipped(ts) == ts

BlockPending(ts) ==
    [i \in 1..Len(ts) |->
        IF ts[i].status = "pending" THEN [ts[i] EXCEPT !.status = "blocked"] ELSE ts[i]]

\* Lines 234-248: the dictionary execute_plan returns.
FinalResult(ts, done) ==
    [returned |-> TRUE,
     success |-> (Cardinality(done) = Len(ts)),
     completed_tasks |-> Cardinality(done),
     total_tasks |-> Len(ts)]

PlanInit ==
    /\ p_pc = "build"
    /\ tasks = << >>
    /\ completed_tasks = {}
    /\ results = {}
    /\ ready_tasks = {}
    /\ final_result = NoResult
    /\ p_ran = {}
    /\ p_runs = 0

PlanIdle == PlanInit

\* generate_execution_plan, lines 143-151: one task of the parsed plan is
\* appended to the list.
PlanAddTask ==
    /\ p_pc = "build"
    /\ Len(tasks) < MaxTasks
    /\ \E id \in TaskIds, deps \in DepLists :
         tasks' = Append(tasks, ExecutionTask(id, deps))
    /\ UNCHANGED << p_pc, completed_tasks, results, ready_tasks, final_result, p_ran, p_runs >>
    /\ UNCHANGED notPlan

\* execute_plan is called on the list (again, once it has returned):
\* lines 200-202.
ExecutePlanStart ==
    /\ p_pc \in {"build", "returned"}
    /\ p_runs < MaxRuns
    /\ p_pc' = "loop"
    /\ completed_tasks' = {}
    /\ results' = {}
    /\ ready_tasks' = {}
    /\ final_result' = NoResult
    /\ p_runs' = p_runs + 1
    /\ UNCHANGED << tasks, p_ran >>
    /\ UNCHANGED notPlan

\* Lines 205-225: the loop condition holds and some task is ready: the wave
\* is handed to _execute_parallel_tasks.
PlanFormWave ==
    /\ p_pc = "loop"
    /\ Cardinality(completed_tasks) < Len(tasks)
    /\ ReadyTasks(tasks, completed_tasks) # {}
    /\ ready_tasks' = ReadyTasks(tasks, completed_tasks)
    /\ p_pc' = "wave"
    /\ UNCHANGED << tasks, completed_tasks, results, final_result, p_ran, p_runs >>
    /\ UNCHANGED notPlan

\* Lines 213-220 and 234-250: no task is ready: the pending ones are blocked,
\* the loop is left and the result compiled.
PlanBlockAndReturn ==
    /\ p_pc = "loop"
    /\ Cardinality(completed_tasks) < Len(tasks)
    /\ ReadyTasks(tasks, completed_tasks) = {}
    /\ tasks' = BlockPending(tasks)
    /\ final_result' = FinalResult(tasks', completed_tasks)
    /\ p_pc' = "returned"
    /\ UNCHANGED << completed_tasks, results, ready_tasks, p_ran, p_runs >>
    /\ UNCHANGED notPlan

\* Lines 205 and 234-250: the loop condition fails and the result is compiled.
PlanReturn ==
    /\ p_pc = "loop"
    /\ ~ (Cardinality(completed_tasks) < Len(tasks))
    /\ final_result' = FinalResult(tasks, completed_tasks)
    /\ p_pc' = "returned"
    /\ UNCHANGED << tasks, completed_tasks, results, ready_tasks, p_ran, p_runs >>
    /\ UNCHANGED notPlan

\* execute_single_task up to the call of the tool method (lines 274-283).
\* asyncio.gather starts the coroutines of a wave in list order.
PlanTaskStart ==
    /\ p_pc = "wave"
    /\ \E i \in ready_tasks :
         /\ tasks[i].status = "pending"
         /\ \A j \in ready_tasks : j < i => tasks[j].status # "pending"
         /\ tasks' = [tasks EXCEPT ![i].status = "running"]
         /\ p_ran' = p_ran \cup {i}
    /\ UNCHANGED << p_pc, completed_tasks, results, ready_tasks, final_result, p_runs >>
    /\ UNCHANGED notPlan

\* execute_single_task from the method's return or exception (lines 286-298):
\* a missing operation or a raising method leaves the task failed.
PlanTaskFinish ==
    /\ p_pc = "wave"
    /\ \E i \in ready_tasks, outcome \in {"completed", "failed"} :
         /\ tasks[i].status = "running"
         /\ tasks' = [tasks EXCEPT ![i].status = outcome]
    /\ UNCHANGED << p_pc, completed_tasks, results, ready_tasks, final_result, p_ran, p_runs >>
    /\ UNCHANGED notPlan

\* gather has returned; lines 228-231 record the wave's completed tasks.
PlanWaveDone ==
    /\ p_pc = "wave"
    /\ \A i \in ready_tasks : tasks[i].status \in {"completed", "failed"}
    /\ LET done == {tasks[i].task_id : i \in {j \in ready_tasks : tasks[j].status = "completed"}}
       IN /\ completed_tasks' = completed_tasks \cup done
          /\ results' = results \cup done
    /\ ready_tasks' = {}
    /\ p_pc' = "loop"
    /\ UNCHANGED << tasks, final_result, p_ran, p_runs >>
    /\ UNCHANGED notPlan

NextPlan ==
    \/ PlanAddTask
    \/ ExecutePlanStart
    \/ PlanFormWave
    \/ PlanBlockAndReturn
    \/ PlanReturn
    \/ PlanTaskStart
    \/ PlanTaskFinish
    \/ PlanWaveDone

(***************************************************************************)
(*                     Text helpers (Python str semantics)                 *)
(***************************************************************************)

\* A string is a sequence of one-character strings.
UpperCase == << "A","B","C","D","E","F","G","H","I","J","K","L","M",
                "N","O","P","Q","R","S","T","U","V","W","X","Y","Z" >>
LowerCase == << "a","b","c","d","e","f","g","h","i","j","k","l","m",
                "n","o","p","q","r","s","t","u","v","w","x","y","z" >>
Whitespace == {" ", "\t", "\n"}

\* str.lower()
LowerChar(c) ==
    IF \E i \in 1..26 : UpperCase[i] = c
    THEN LowerCase[CHOOSE i \in 1..26 : UpperCase[i] = c]
    ELSE c

Lower(s) == [i \in 1..Len(s) |-> LowerChar(s[i])]

\* str.strip()
RECURSIVE LStrip(_)
LStrip(s) == IF s # << >> /\ Head(s) \in Whitespace THEN LStrip(Tail(s)) ELSE s

RECURSIVE RStrip(_)
RStrip(s) ==
    IF s # << >> /\ s[Len(s)] \in Whitespace THEN RStrip(SubSeq(s, 1, Len(s) - 1)) ELSE s

Strip(s) == RStrip(LStrip(s))

\* Python's clamping of a slice bound i for a string of length n.
SliceBound(i, n) ==
    IF i < 0 THEN (IF i + n < 0 THEN 0 ELSE i + n)
    ELSE (IF i > n THEN n ELSE i)

\* text[a:b]
Slice(text, a, b) ==
    LET lo == SliceBound(a, Len(text))
        hi == SliceBound(b, Len(text))
    IN IF lo >= hi THEN << >> ELSE SubSeq(text, lo + 1, hi)

\* text.find(c, a, b): lowest 0-based index of c in text[a:b], or -1.
Find(text, c, a, b) ==
    LET lo   == SliceBound(a, Len(text))
        hi   == SliceBound(b, Len(text))
        hits == {k \in lo..(hi - 1) : text[k + 1] = c}
    IN IF hits = {} THEN -1 ELSE CHOOSE k \in hits : \A j \in hits : k <= j

\* Iterations granted to the loop of chunk_text before it is declared
\* non-terminating.
ChunkFuel == 8

\* The while loop of chunk_text (lines 84-98).
RECURSIVE ChunkLoop(_, _, _, _, _, _)
ChunkLoop(text, chunk_size, overlap, start, chunks, fuel) ==
    IF ~ (start < Len(text)) THEN [chunks |-> chunks, terminated |-> TRUE]
    ELSE IF fuel = 0 THEN [chunks |-> chunks, terminated |-> FALSE]
    ELSE LET end0 == start + chunk_size
             next_period == IF end0 < Len(text)
                            THEN Find(text, ".", end0 - 100, end0 + 100)
                            ELSE -1
             end   == IF next_period # -1 THEN next_period + 1 ELSE end0
             chunk == Strip(Slice(text, start, end))
             out   == IF chunk # << >> THEN Append(chunks, chunk) ELSE chunks
         IN ChunkLoop(text, chunk_size, overlap, end - overlap, out, fuel - 1)

\* chunk_text(text, chunk_size, overlap)
chunk_text(text, chunk_size, overlap) ==
    IF text = << >> THEN << >>
    ELSE IF Len(text) <= chunk_size THEN << text >>
    ELSE ChunkLoop(text, chunk_size, overlap, 0, << >>, ChunkFuel).chunks

\* Texts chunk_text is called with: every text of up to MaxTextLen
\* characters over a letter, a blank and a full stop, with a window of 2 or
\* 3 and an overlap of 1, and texts longer than the 100-character reach of
\* the sentence-boundary search, with a window of 50 and an overlap of 10.
MaxTextLen == 4

Alphabet == {"a", " ", "."}

ShortTexts == UNION {[1..n -> Alphabet] : n \in 0..MaxTextLen}

\* A text of n letters with a full stop at each 0-based index of stops.
LongText(n, stops) == [i \in 1..n |-> IF (i - 1) \in stops THEN "." ELSE "a"]

ChunkInputs ==
    {[text |-> t, chunk_size |-> c, overlap |-> 1] : t \in ShortTexts, c \in {2, 3}}
    \cup {[text |-> LongText(160, s), chunk_size |-> 50, overlap |-> 10] :
             s \in {{}, {60}, {149}, {150}, {20, 149}}}

NoChunkInput == [text |-> << >>, chunk_size |-> 2, overlap |-> 1]

ChunkInit ==
    /\ ch_pc = "called"
    /\ ch_input \in ChunkInputs
    /\ ch_chunks = << >>

ChunkIdle ==
    /\ ch_pc = "idle"
    /\ ch_input = NoChunkInput
    /\ ch_chunks = << >>

\* chunk_text runs: it returns its chunks, or its loop never ends.
ChunkTextRun ==
    /\ ch_pc = "called"
    /\ LET text == ch_input.text
           loop == ChunkLoop(text, ch_input.chunk_size, ch_input.overlap, 0, << >>,
                             ChunkFuel)
       IN  IF text # << >> /\ Len(text) > ch_input.chunk_size /\ ~loop.terminated
           THEN /\ ch_pc' = "looping"
                /\ UNCHANGED ch_chunks
           ELSE /\ ch_pc' = "returned"
                /\ ch_chunks' = chunk_text(text, ch_input.chunk_size, ch_input.overlap)
    /\ UNCHANGED ch_input
    /\ UNCHANGED notChunk

NextChunk == ChunkTextRun

(***************************************************************************)
(*        Vector Store, Email Full-Body Storage, Conversation Memory       *)
(***************************************************************************)

\* The VectorStore objects of a process: AutonomousEmailAgent.vector_store,
\* MemoryManager.vector_store and EmailIndexerService.vector_store.  They
\* share one persisted Chroma collection, found by name.
VSInstances == {"agent", "memory", "indexer"}

\* The EmailStorage objects: AutonomousEmailAgent.email_storage and
\* EmailIndexerService.email_storage, both over data/email_storage.json.
ESInstances == {"agent", "indexer"}

\* The mailbox listed by an indexing pass, and the body text of each message.
Mailbox == << "m1", "m2" >>

BodyText(m) ==
    IF m = "m1" THEN << "h", "i", "." >>
    ELSE [i \in 1..1600 |-> IF i = 1180 THEN "." ELSE "a"]

\* f"{email_id}_chunk_{i}" and the bare id, as strings.
ChunkDocEmailId(email_id, i) == << email_id, "_chunk_", i >>
PlainEmailId(email_id)       == << email_id >>

\* VectorStore.add_email, line 149: the document id.  The random suffix is
\* fresh for every call; the number of the calling pass stands for it, a pass
\* making at most one call per email_id argument.
DocId(email_id, uuid) == << "email_", email_id, uuid >>

\* VectorStore.add_email, lines 117-157: the metadata of the stored document.
\* The email_id key is the id the caller passed; additional_metadata is
\* merged over it and carries original_email_id and the chunk fields.
AddEmail(doc_id, email_id, additional_metadata) ==
    [doc_id            |-> doc_id,
     email_id          |-> email_id,
     original_email_id |-> additional_metadata.original_email_id,
     is_chunked        |-> additional_metadata.is_chunked,
     chunk_index       |-> additional_metadata.chunk_index,
     total_chunks      |-> additional_metadata.total_chunks]

\* A variant of IndexEmailCalls that leaves is_chunked as enhanced_metadata
\* has it.
IndexEmailCallsFlagUnset(m) ==
    LET body == BodyText(m) IN
    IF Len(body) > 1500
    THEN LET chunks == chunk_text(body, 1200, 150) IN
         [i \in 1..Len(chunks) |->
            [email_id |-> ChunkDocEmailId(m, i - 1),
             meta |-> [original_email_id |-> m, is_chunked |-> FALSE,
                       chunk_index |-> i - 1, total_chunks |-> Len(chunks)]]]
    ELSE << [email_id |-> PlainEmailId(m),
             meta |-> [original_email_id |-> m, is_chunked |-> FALSE,
                       chunk_index |-> -1, total_chunks |-> 0]] >>

\* _index_email_with_metadata, lines 312-350: the add_email calls made for
\* one parsed email, in order, as (email_id argument, additional metadata).
IndexEmailCalls(m) ==
    LET body == BodyText(m) IN
    IF Len(body) > 1500
    THEN LET chunks == chunk_text(body, 1200, 150) IN
         [i \in 1..Len(chunks) |->
            [email_id |-> ChunkDocEmailId(m, i - 1),
             meta |-> [original_email_id |-> m, is_chunked |-> TRUE,
                       chunk_index |-> i - 1, total_chunks |-> Len(chunks)]]]
    ELSE << [email_id |-> PlainEmailId(m),
             meta |-> [original_email_id |-> m, is_chunked |-> FALSE,
                       chunk_index |-> -1, total_chunks |-> 0]] >>

\* The calls per message of the mailbox, computed once.
IndexEmailCallsOf == [m \in {Mailbox[i] : i \in 1..Len(Mailbox)} |-> IndexEmailCalls(m)]

\* run_indexing, lines 151-156: collection.get(where={"email_id": id}, limit=1)
\* finds a document.
AlreadyIndexed(docs, m) == \E d \in docs : d.email_id = PlainEmailId(m)

\* Settings.summarization_threshold
summarization_threshold == 20

\* Bounds of the application model.
MaxPasses      == 2      \* indexing passes begun
MaxMessages    == 22     \* messages ever added to a Conversation Memory
MaxCliMessages == 2      \* messages added through queries of one CLI session

Passes == {"cmd", "bg"}  \* the pass awaited by a command, the service's pass

IdlePass == [pc |-> "idle", no |-> 0, msgs |-> << >>, pos |-> 1,
             indexed_count |-> 0, skipped_count |-> 0, error_count |-> 0]

NoStats == [returned |-> FALSE, raised |-> FALSE, total_fetched |-> 0, indexed |-> 0,
            skipped |-> 0, errors |-> 0]

NoLine == << "<unread>" >>

\* The persisted stores and the objects over them, as one value.
Stores == [collection |-> collection, stale_handles |-> stale_handles,
           es_storage |-> es_storage, storage_file |-> storage_file]

SetStores(s) ==
    /\ collection' = s.collection
    /\ stale_handles' = s.stale_handles
    /\ es_storage' = s.es_storage
    /\ storage_file' = s.storage_file

\* ---- VectorStore ----

HandleValid(inst) == inst \notin stale_handles

\* clear_all_data through instance inst (lines 392-402): the named collection
\* is deleted and recreated; inst holds the new, empty collection and the
\* handle of every other instance is left dangling.
clear_all_data_and_storage(s, inst) ==
    [s EXCEPT !.collection = {}, !.stale_handles = VSInstances \ {inst},
              !.es_storage = [i \in ESInstances |-> {}], !.storage_file = {}]

clear_all_data(s, inst) ==
    [s EXCEPT !.collection = {}, !.stale_handles = VSInstances \ {inst}]

\* A variant of QueryToolStores in which the query is also written to the
\* collection as a document.
QueryToolStoresRecordingTurn(s, insts) ==
    [s EXCEPT !.stale_handles = @ \ insts,
              !.collection = @ \cup
                 {AddEmail(DocId(<< "conversation" >>, 0), << "conversation" >>,
                           [original_email_id |-> "-", is_chunked |-> FALSE,
                            chunk_index |-> -1, total_chunks |-> 0])}]

\* What the tools of one process_query call do to the stores: the only
\* Vector Store operation they reach is semantic_search, on the agent's
\* object (search_emails_rag, autonomous_agent.py:207) and on the memory
\* manager's (recall_conversation, memory_manager.py:202); it renews a
\* dangling handle of the instances insts it is called on and reads.
QueryToolStores(s, insts) == [s EXCEPT !.stale_handles = @ \ insts]

\* ---- EmailStorage ----

\* store_email (lines 53-69): the record is put into this instance's map and
\* the whole map is written to the file.
store_email(s, inst, email_id) ==
    [s EXCEPT !.es_storage[inst] = @ \cup {email_id},
              !.storage_file = s.es_storage[inst] \cup {email_id}]

\* get_email (line 84)
get_email(s, inst, email_id) == IF email_id \in s.es_storage[inst] THEN email_id ELSE "None"

\* clear_all (lines 99-100)
clear_all(s, inst) ==
    [s EXCEPT !.es_storage[inst] = {}, !.storage_file = {}]

\* ---- ConversationMemory ----

\* _summarize_and_compress (lines 85-144) as it would act when run to its
\* end: the last 10 messages are kept and a summary is set.
SummarizeAndCompress(mem) ==
    IF Len(mem.messages) < summarization_threshold THEN mem
    ELSE [messages |-> SubSeq(mem.messages, Len(mem.messages) - 9, Len(mem.messages)),
          summary |-> "summary",
          message_count |-> 10]

\* add_message (lines 33-44).  It is a plain function and calls the coroutine
\* function _summarize_and_compress without awaiting it: the call only builds
\* a coroutine object, whose body never runs.
AddMessage(mem, role, n) ==
    [messages |-> Append(mem.messages, [role |-> role, n |-> n]),
     summary |-> mem.summary,
     message_count |-> mem.message_count + 1]

Memory == [messages |-> messages, summary |-> summary, message_count |-> message_count]

SetMemory(mem) ==
    /\ messages' = mem.messages
    /\ summary' = mem.summary
    /\ message_count' = mem.message_count

\* MemoryManager.learn_from_interaction, lines 82-83.
LearnFromInteraction ==
    /\ SetMemory(AddMessage(AddMessage(Memory, "user", m_clock + 1), "assistant", m_clock + 2))
    /\ m_clock' = m_clock + 2

\* ConversationMemory.clear
ClearConversation ==
    /\ messages' = << >>
    /\ summary' = "None"
    /\ message_count' = 0
    /\ UNCHANGED m_clock

AppInitStores ==
    /\ collection = {}
    /\ stale_handles = {}
    /\ es_storage = [inst \in ESInstances |-> {}]
    /\ storage_file = {}
    /\ messages = << >>
    /\ summary = "None"
    /\ message_count = 0
    /\ m_clock = 0
    /\ is_running = FALSE
    /\ last_index_time = 0
    /\ pass = [p \in Passes |-> IdlePass]
    /\ stats = [p \in Passes |-> NoStats]
    /\ running = "none"
    /\ passes_begun = 0
    /\ cli_line = NoLine

\* The three ways the components are driven: main.py, main_autonomous.py, or
\* a client calling the components' methods directly.
AppInit ==
    /\ AppInitStores
    /\ cli_mode \in {"fixed", "autonomous", "library"}
    /\ cli_pc = IF cli_mode = "library" THEN "api" ELSE "prompt"
    /\ bg_pc = IF cli_mode = "fixed" THEN "scheduled" ELSE "absent"

AppIdle ==
    /\ AppInitStores
    /\ cli_mode = "library"
    /\ cli_pc = "api"
    /\ bg_pc = "absent"

(***************************************************************************)
(*                     EmailIndexerService.run_indexing                    *)
(***************************************************************************)

\* The coroutine of pass p may take a step: no other coroutine is in the
\* middle of a segment, and for the service's pass the main coroutine is
\* suspended in an await (input() blocks the event loop).
MainSuspended == cli_pc \in {"indexing", "query"}

CanRun(p) ==
    /\ running \in {"none", p}
    /\ p = "bg" => MainSuspended

\* Lines 110-135: the listing of the mailbox and the counters.
\* With raised, the listing call raises something list_messages does not
\* catch: nothing in run_indexing handles it before lines 221-223, which log
\* it and raise it again to the caller.
BeginPass(p, raised) ==
    /\ passes_begun < MaxPasses
    /\ passes_begun' = passes_begun + 1
    /\ IF raised
       THEN /\ stats' = [stats EXCEPT ![p] = [NoStats EXCEPT !.raised = TRUE]]
            /\ UNCHANGED << pass, running >>
       ELSE /\ \E listing \in {Mailbox, << >>} :
                 pass' = [pass EXCEPT ![p] = [IdlePass EXCEPT !.pc = "message",
                                                             !.msgs = listing,
                                                             !.no = passes_begun + 1]]
            /\ stats' = [stats EXCEPT ![p] = NoStats]
            /\ running' = p

\* A variant of AfterError: the first failing message ends the loop.
AfterErrorAbort(pos, n) == n + 1

\* Lines 189-191: the except clause of the loop body counts the error and
\* the for loop goes on with the next of the n listed messages.
AfterError(pos, n) == pos + 1

\* Lines 164-191 for message m: the full body is stored, then the add_email
\* calls are made; the fail_at-th call raises (0: none does).  A success ends
\* in asyncio.sleep(0.2), a failure goes straight on to the next message.
IndexMessage(p, m, fail_at) ==
    LET calls  == IndexEmailCallsOf[m]
        failed == fail_at >= 1 /\ fail_at <= Len(calls)
        made   == IF failed THEN fail_at - 1 ELSE Len(calls)
        docs   == {AddEmail(DocId(calls[k].email_id, pass[p].no), calls[k].email_id,
                            calls[k].meta) : k \in 1..made}
        stored == store_email(Stores, "indexer", m)
    IN /\ SetStores([stored EXCEPT !.collection = @ \cup docs,
                                   !.stale_handles = @ \ {"indexer"}])
       /\ IF failed
          THEN /\ pass' = [pass EXCEPT ![p].pc = "message",
                                       ![p].pos = AfterError(@, Len(pass[p].msgs)),
                                       ![p].error_count = @ + 1]
               /\ running' = p
          ELSE /\ pass' = [pass EXCEPT ![p].pc = "message", ![p].pos = @ + 1,
                                       ![p].indexed_count = @ + 1]
               /\ running' = "none"

SkipMessage(p) ==
    /\ pass' = [pass EXCEPT ![p].pos = @ + 1, ![p].skipped_count = @ + 1]
    /\ running' = p
    /\ UNCHANGED << collection, stale_handles, es_storage, storage_file >>

\* Lines 137-191: the loop body for the next listed message, up to its first
\* suspension.  The existence check raises on a dangling collection handle
\* and indexing then proceeds.
PassMessage(p) ==
    /\ pass[p].pc = "message"
    /\ pass[p].pos <= Len(pass[p].msgs)
    /\ CanRun(p)
    /\ LET m == pass[p].msgs[pass[p].pos] IN
       \E fetched \in BOOLEAN, retry \in BOOLEAN, fail_at \in 0..2 :
          IF ~fetched THEN SkipMessage(p)
          ELSE IF HandleValid("indexer") /\ AlreadyIndexed(collection, m) THEN SkipMessage(p)
          ELSE IF retry
               THEN /\ pass' = [pass EXCEPT ![p].pc = "summary_retry"]
                    /\ running' = "none"
                    /\ UNCHANGED << collection, stale_handles, es_storage,
                                    storage_file >>
               ELSE IndexMessage(p, m, fail_at)
    /\ UNCHANGED << cli_mode, cli_pc, cli_line, bg_pc, messages, summary, message_count,
                    m_clock, is_running, last_index_time, stats, passes_begun >>
    /\ UNCHANGED notApp

\* The summary call returns after a retry backoff; lines 167-191 follow.
PassAfterSummary(p) ==
    /\ pass[p].pc = "summary_retry"
    /\ CanRun(p)
    /\ \E fail_at \in 0..2 : IndexMessage(p, pass[p].msgs[pass[p].pos], fail_at)
    /\ UNCHANGED << cli_mode, cli_pc, cli_line, bg_pc, messages, summary, message_count,
                    m_clock, is_running, last_index_time, stats, passes_begun >>
    /\ UNCHANGED notApp

\* Lines 193-219: the state is updated and the statistics returned to the
\* awaiting caller: the command loop, or start() / the recurring loop, which
\* then sleeps until the next interval.
PassEnd(p) ==
    /\ pass[p].pc = "message"
    /\ pass[p].pos > Len(pass[p].msgs)
    /\ CanRun(p)
    /\ last_index_time' = last_index_time + 1
    /\ stats' = [stats EXCEPT ![p] =
                   [returned |-> TRUE,
                    raised |-> FALSE,
                    total_fetched |-> Len(pass[p].msgs),
                    indexed |-> pass[p].indexed_count,
                    skipped |-> pass[p].skipped_count,
                    errors |-> pass[p].error_count]]
    /\ pass' = [pass EXCEPT ![p] = IdlePass]
    /\ running' = "none"
    /\ IF p = "cmd"
       THEN /\ cli_pc' = IF cli_pc = "indexing" THEN "prompt" ELSE cli_pc
            /\ UNCHANGED bg_pc
       ELSE /\ bg_pc' = "sleeping"
            /\ UNCHANGED cli_pc
    /\ UNCHANGED << cli_mode, cli_line, collection, stale_handles, es_storage,
                    storage_file, messages, summary, message_count, m_clock, is_running,
                    passes_begun >>
    /\ UNCHANGED notApp

\* EmailIndexerService.start(), scheduled by EmailAssistant.__init__: it runs
\* once the main coroutine first suspends (lines 69-77).
BgStart ==
    /\ bg_pc = "scheduled"
    /\ MainSuspended
    /\ running = "none"
    /\ ~is_running
    /\ is_running' = TRUE
    /\ \E raised \in BOOLEAN :
         /\ BeginPass("bg", raised)
         /\ bg_pc' = IF raised THEN "start_raised" ELSE "pass"
    /\ UNCHANGED << cli_mode, cli_pc, cli_line, collection, stale_handles,
                    es_storage, storage_file, messages, summary, message_count, m_clock,
                    last_index_time >>
    /\ UNCHANGED notApp

\* _scheduled_indexing wakes from its interval sleep (lines 89-96).
BgWake ==
    /\ bg_pc = "sleeping"
    /\ MainSuspended
    /\ running = "none"
    /\ is_running
    /\ \E raised \in BOOLEAN :
         /\ BeginPass("bg", raised)
         /\ bg_pc' = IF raised THEN "sleeping" ELSE "pass"
    /\ UNCHANGED << cli_mode, cli_pc, cli_line, collection, stale_handles,
                    es_storage, storage_file, messages, summary, message_count, m_clock,
                    is_running, last_index_time >>
    /\ UNCHANGED notApp

(***************************************************************************)
(*                 The command loops of main.py / main_autonomous.py       *)
(***************************************************************************)

Yes == << "y", "e", "s" >>

\* Lines typed at the two input() prompts.
InputLines ==
    { << >>,
      << " ", " " >>,
      << "q", "u", "i", "t" >>,
      << "c", "l", "e", "a", "r", "d", "b" >>,
      << " ", "C", "l", "e", "a", "r", "D", "B", " " >>,
      << "c", "l", "e", "a", "r" >>,
      << "a", "u", "t", "o", "i", "n", "d", "e", "x" >>,
      << "s", "t", "a", "t", "u", "s" >>,
      << "h", "e", "l", "l", "o" >>,
      << "y", "e", "s" >>,
      << "Y", "E", "S" >>,
      << " ", "Y", "e", "s", " " >>,
      << "y" >>,
      << "n", "o" >>,
      << "y", "e", "s", "!" >> }

QuitCommands == { << "q", "u", "i", "t" >>, << "e", "x", "i", "t" >>, << "q" >> }
AutoIndexCmd == << "a", "u", "t", "o", "i", "n", "d", "e", "x" >>
StatusCmd    == << "s", "t", "a", "t", "u", "s" >>
StatsCmd     == << "s", "t", "a", "t", "s" >>
ClearDbCmd   == << "c", "l", "e", "a", "r", "d", "b" >>
ClearCmd     == << "c", "l", "e", "a", "r" >>

\* confirm = input(...).strip().lower();  if confirm == 'yes'
IsConfirmedByFirstLetter(line) == Strip(line) # << >> /\ Lower(Strip(line))[1] = "y"

IsConfirmed(line) == Lower(Strip(line)) = Yes

\* query = input(...).strip() and query.lower(), per line, computed once.
StrippedLine == [line \in InputLines |-> Strip(line)]
CommandOf    == [line \in InputLines |-> Lower(Strip(line))]

appFrameCli == << cli_mode, bg_pc, is_running, last_index_time >>

\* One pass of the while loop up to its first await or second input():
\* main.py lines 49-122, main_autonomous.py lines 54-107.
CliReadCommand ==
    /\ cli_pc = "prompt"
    /\ cli_line' = NoLine
    /\ \E line \in InputLines :
         LET query == StrippedLine[line]
             cmd   == CommandOf[line]
         IN
         CASE query = << >> ->
                UNCHANGED << cli_pc, collection, stale_handles, es_storage,
                             storage_file, messages, summary, message_count, m_clock,
                             pass, stats, running, passes_begun >>
           [] query # << >> /\ cmd \in QuitCommands ->
                /\ cli_pc' = "exited"
                /\ UNCHANGED << collection, stale_handles, es_storage,
                                storage_file, messages, summary, message_count, m_clock,
                                pass, stats, running, passes_begun >>
           [] cmd = AutoIndexCmd ->
                /\ \E raised \in BOOLEAN :
                     /\ BeginPass("cmd", raised)
                     /\ cli_pc' = IF raised THEN "prompt" ELSE "indexing"
                /\ UNCHANGED << collection, stale_handles, es_storage,
                                storage_file, messages, summary, message_count, m_clock >>
           [] cmd \in {StatusCmd, StatsCmd} ->
                UNCHANGED << cli_pc, collection, stale_handles, es_storage,
                             storage_file, messages, summary, message_count, m_clock,
                             pass, stats, running, passes_begun >>
           [] cmd = ClearDbCmd ->
                /\ cli_pc' = "confirm"
                /\ UNCHANGED << collection, stale_handles, es_storage,
                                storage_file, messages, summary, message_count, m_clock,
                                pass, stats, running, passes_begun >>
           [] cmd = ClearCmd ->
                /\ ClearConversation
                /\ UNCHANGED << cli_pc, collection, stale_handles, es_storage,
                                storage_file, pass, stats, running, passes_begun >>
           [] OTHER ->
                /\ m_clock + 2 <= MaxCliMessages
                /\ cli_pc' = "query"
                /\ UNCHANGED << collection, stale_handles, es_storage,
                                storage_file, messages, summary, message_count, m_clock,
                                pass, stats, running, passes_begun >>
    /\ UNCHANGED appFrameCli
    /\ UNCHANGED notApp

\* KeyboardInterrupt at either input(): the loop is left.
CliInterrupt ==
    /\ cli_pc \in {"prompt", "confirm"}
    /\ cli_pc' = "exited"
    /\ UNCHANGED << cli_line, collection, stale_handles, es_storage, storage_file,
                    messages, summary, message_count, m_clock, pass, stats, running,
                    passes_begun >>
    /\ UNCHANGED appFrameCli
    /\ UNCHANGED notApp

\* The confirmation of cleardb: main.py lines 104-113 (clear_vector_db, which
\* clears through MemoryManager.vector_store), main_autonomous.py lines 93-95
\* (clear_all_data through the agent's own VectorStore).
CliConfirm ==
    /\ cli_pc = "confirm"
    /\ \E line \in InputLines :
         /\ cli_line' = line
         /\ IF IsConfirmed(line)
            THEN IF cli_mode = "fixed"
                 THEN /\ SetStores(clear_all_data(Stores, "memory"))
                      /\ cli_pc' = "prompt"
                 ELSE /\ SetStores(clear_all_data(Stores, "agent"))
                      /\ cli_pc' = "clear_storage"
            ELSE /\ cli_pc' = "prompt"
                 /\ UNCHANGED << collection, stale_handles, es_storage, storage_file >>
    /\ UNCHANGED << messages, summary, message_count, m_clock, pass, stats,
                    running, passes_begun >>
    /\ UNCHANGED appFrameCli
    /\ UNCHANGED notApp

\* main_autonomous.py lines 96-98: agent.clear_email_storage(), then continue.
CliClearStorage ==
    /\ cli_pc = "clear_storage"
    /\ SetStores(clear_all(Stores, "agent"))
    /\ cli_pc' = "prompt"
    /\ UNCHANGED << cli_line, messages, summary, message_count, m_clock, pass,
                    stats, running, passes_begun >>
    /\ UNCHANGED appFrameCli
    /\ UNCHANGED notApp

\* The awaited assistant.run / agent.process_query returns.  The autonomous
\* agent always records the turn; the fixed pipeline records it unless the
\* synthesis step failed before learn_from_interaction.
CliQueryDone ==
    /\ cli_pc = "query"
    /\ running = "none"
    /\ \E learned \in BOOLEAN :
         IF learned \/ cli_mode = "autonomous"
         THEN LearnFromInteraction
         ELSE UNCHANGED << messages, summary, message_count, m_clock >>
    /\ \E searched \in SUBSET {"agent", "memory"} :
         SetStores(IF cli_mode = "autonomous" THEN QueryToolStores(Stores, searched)
                   ELSE Stores)
    /\ cli_pc' = "prompt"
    /\ UNCHANGED << cli_line, pass, stats, running, passes_begun >>
    /\ UNCHANGED appFrameCli
    /\ UNCHANGED notApp

\* ---- the components called directly ----

\* EmailIndexerService.run_indexing() / EmailAssistant.force_index_now()
ApiRunIndexing ==
    /\ cli_mode = "library"
    /\ pass["cmd"].pc = "idle"
    /\ \E raised \in BOOLEAN : BeginPass("cmd", raised)
    /\ UNCHANGED << cli_pc, cli_line, collection, stale_handles, es_storage,
                    storage_file, messages, summary, message_count, m_clock >>
    /\ UNCHANGED appFrameCli
    /\ UNCHANGED notApp

\* EmailAssistant.clear_vector_db()
ApiClearVectorDb ==
    /\ cli_mode = "library"
    /\ running = "none"
    /\ SetStores(clear_all_data(Stores, "memory"))
    /\ UNCHANGED << cli_pc, cli_line, messages, summary, message_count, m_clock,
                    pass, stats, running, passes_begun >>
    /\ UNCHANGED appFrameCli
    /\ UNCHANGED notApp

\* AutonomousEmailAgent.clear_email_storage()
ApiClearEmailStorage ==
    /\ cli_mode = "library"
    /\ running = "none"
    /\ SetStores(clear_all(Stores, "agent"))
    /\ UNCHANGED << cli_pc, cli_line, messages, summary, message_count, m_clock,
                    pass, stats, running, passes_begun >>
    /\ UNCHANGED appFrameCli
    /\ UNCHANGED notApp

NextApp ==
    \/ CliReadCommand
    \/ CliInterrupt
    \/ CliConfirm
    \/ CliClearStorage
    \/ CliQueryDone
    \/ ApiRunIndexing
    \/ ApiClearVectorDb
    \/ ApiClearEmailStorage
    \/ \E p \in Passes : PassMessage(p)
    \/ \E p \in Passes : PassAfterSummary(p)
    \/ \E p \in Passes : PassEnd(p)
    \/ BgStart
    \/ BgWake

(***************************************************************************)
(*                  ConversationMemory driven on its own                   *)
(***************************************************************************)

memFrame == << cli_mode, cli_pc, cli_line, bg_pc, collection, stale_handles,
               es_storage, storage_file, is_running, last_index_time, pass, stats,
               running, passes_begun >>

\* add_message("system", ...)
MemAddMessage ==
    /\ m_clock + 1 <= MaxMessages
    /\ SetMemory(AddMessage(Memory, "system", m_clock + 1))
    /\ m_clock' = m_clock + 1
    /\ UNCHANGED memFrame
    /\ UNCHANGED notApp

\* MemoryManager.learn_from_interaction
MemLearnFromInteraction ==
    /\ m_clock + 2 <= MaxMessages
    /\ LearnFromInteraction
    /\ UNCHANGED memFrame
    /\ UNCHANGED notApp

\* ConversationMemory.clear
MemClear ==
    /\ messages # << >>
    /\ ClearConversation
    /\ UNCHANGED memFrame
    /\ UNCHANGED notApp

NextMemory ==
    \/ MemAddMessage
    \/ MemLearnFromInteraction
    \/ MemClear

(***************************************************************************)
(*                 EmailAssistant.run, the LangGraph workflow              *)
(***************************************************************************)

MaxWfRuns == 3       \* run calls made on one EmailAssistant

\* run, lines 447-460: the initial AgentState.
InitialState == [needs_rag |-> FALSE, needs_search |-> FALSE, execution_plan |-> "None",
                 search_results |-> 0, rag_response |-> "None", final_answer |-> "",
                 completed |-> FALSE]

\* _route_after_understanding
RouteAfterUnderstandingSearchOnly(state) ==
    IF state.needs_search THEN "plan_search" ELSE "synthesize_answer"

RouteAfterUnderstanding(state) ==
    IF state.needs_search \/ state.needs_rag THEN "plan_search" ELSE "synthesize_answer"

\* _route_after_planning
RouteAfterPlanning(state) ==
    IF state.needs_rag THEN "retrieve_with_rag" ELSE "execute_parallel"

WfInit ==
    /\ w_pc = "idle"
    /\ w_state = InitialState
    /\ w_path = << >>
    /\ w_runs = 0

WfIdle == WfInit

\* run is called: the workflow is entered at understand_query.
WfRun ==
    /\ w_pc \in {"idle", "returned"}
    /\ w_runs < MaxWfRuns
    /\ w_runs' = w_runs + 1
    /\ w_state' = InitialState
    /\ w_path' = << >>
    /\ w_pc' = "understand_query"
    /\ UNCHANGED << messages, summary, message_count, m_clock >>
    /\ UNCHANGED notWf

\* _understand_query, then the first conditional edge.  The analysis gives
\* the two flags; any exception in the node sets both to True.
WfUnderstandQuery ==
    /\ w_pc = "understand_query"
    /\ \E failed \in BOOLEAN, rag \in BOOLEAN, search \in BOOLEAN :
         LET state == IF failed
                      THEN [w_state EXCEPT !.needs_rag = TRUE, !.needs_search = TRUE]
                      ELSE [w_state EXCEPT !.needs_rag = rag, !.needs_search = search]
         IN /\ w_state' = state
            /\ w_pc' = RouteAfterUnderstanding(state)
    /\ w_path' = Append(w_path, "understand_query")
    /\ UNCHANGED << w_runs, messages, summary, message_count, m_clock >>
    /\ UNCHANGED notWf

\* _plan_search, then the second conditional edge.  A failure leaves the
\* state as it was.
WfPlanSearch ==
    /\ w_pc = "plan_search"
    /\ \E failed \in BOOLEAN :
         w_state' = IF failed THEN w_state ELSE [w_state EXCEPT !.execution_plan = "plan"]
    /\ w_pc' = RouteAfterPlanning(w_state')
    /\ w_path' = Append(w_path, "plan_search")
    /\ UNCHANGED << w_runs, messages, summary, message_count, m_clock >>
    /\ UNCHANGED notWf

\* _execute_parallel: without a plan the state is returned as it is; a
\* failure sets search_results to the empty list.
WfExecuteParallel ==
    /\ w_pc = "execute_parallel"
    /\ \E failed \in BOOLEAN, found \in 0..1 :
         w_state' = IF w_state.execution_plan = "None" THEN w_state
                    ELSE IF failed THEN [w_state EXCEPT !.search_results = 0]
                    ELSE [w_state EXCEPT !.search_results = found]
    /\ w_pc' = "synthesize_answer"
    /\ w_path' = Append(w_path, "execute_parallel")
    /\ UNCHANGED << w_runs, messages, summary, message_count, m_clock >>
    /\ UNCHANGED notWf

\* _retrieve_with_rag: a failure sets rag_response to None.
WfRetrieveWithRag ==
    /\ w_pc = "retrieve_with_rag"
    /\ \E failed \in BOOLEAN :
         w_state' = [w_state EXCEPT !.rag_response = IF failed THEN "None" ELSE "response"]
    /\ w_pc' = "synthesize_answer"
    /\ w_path' = Append(w_path, "retrieve_with_rag")
    /\ UNCHANGED << w_runs, messages, summary, message_count, m_clock >>
    /\ UNCHANGED notWf

\* _synthesize_answer: the answer is generated and the interaction learned;
\* any exception gives the canned apology.  Both ways set completed.
WfSynthesizeAnswer ==
    /\ w_pc = "synthesize_answer"
    /\ \E failed \in BOOLEAN :
         IF failed
         THEN /\ w_state' = [w_state EXCEPT !.final_answer = "apology", !.completed = TRUE]
              /\ UNCHANGED << messages, summary, message_count, m_clock >>
         ELSE /\ w_state' = [w_state EXCEPT !.final_answer = "llm_answer", !.completed = TRUE]
              /\ LearnFromInteraction
    /\ w_pc' = "END"
    /\ w_path' = Append(w_path, "synthesize_answer")
    /\ UNCHANGED w_runs
    /\ UNCHANGED notWf

\* run, lines 462-482: the response is built from the final state.
WfReturn ==
    /\ w_pc = "END"
    /\ w_pc' = "returned"
    /\ UNCHANGED << w_state, w_path, w_runs, messages, summary, message_count, m_clock >>
    /\ UNCHANGED notWf

NextWorkflow ==
    \/ WfRun
    \/ WfUnderstandQuery
    \/ WfPlanSearch
    \/ WfExecuteParallel
    \/ WfRetrieveWithRag
    \/ WfSynthesizeAnswer
    \/ WfReturn

(***************************************************************************)
(*            AzureOpenAIClient: the operations under @retry               *)
(***************************************************************************)

MaxRetryCalls == 2   \* calls made on one client

\* @retry(stop=stop_after_attempt(3), wait=wait_exponential(min=1, max=10))
stop_after_attempt == 3
wait_min == 1
wait_max == 10

RetryOps ==
    { [name |-> "generate_response", empty |-> FALSE],
      [name |-> "generate_embeddings", empty |-> FALSE],
      [name |-> "generate_embeddings", empty |-> TRUE],
      [name |-> "generate_embedding", empty |-> FALSE] }

NoOp == [name |-> "none", empty |-> FALSE]

\* stop_after_attempt(3): no further attempt after attempt number n.
ShouldStopAfterFour(attempt_number) == attempt_number >= stop_after_attempt + 1

ShouldStop(attempt_number) == attempt_number >= stop_after_attempt

\* wait_exponential(multiplier=1, min=1, max=10) after attempt number n.
RECURSIVE Pow2(_)
Pow2(n) == IF n <= 0 THEN 1 ELSE 2 * Pow2(n - 1)

Min2(a, b) == IF a <= b THEN a ELSE b
Max2(a, b) == IF a >= b THEN a ELSE b

WaitExponential(attempt_number) ==
    Max2(Max2(0, wait_min), Min2(Pow2(attempt_number - 1), wait_max))

RetryInit ==
    /\ r_pc = "idle"
    /\ r_op = NoOp
    /\ r_outcomes = << >>
    /\ r_waits = << >>
    /\ r_result = "none"
    /\ r_log = << >>

RetryIdle == RetryInit

\* A caller calls one of the three operations.
RetryCall ==
    /\ r_pc \in {"idle", "returned", "raised"}
    /\ Len(r_log) < MaxRetryCalls
    /\ \E op \in RetryOps : r_op' = op
    /\ r_pc' = "attempt"
    /\ r_outcomes' = << >>
    /\ r_waits' = << >>
    /\ r_result' = "none"
    /\ UNCHANGED r_log
    /\ UNCHANGED notRetry

\* One attempt: the body of the operation.  It returns the provider's value
\* (generate_embeddings returns [] for no texts without a provider call) or
\* logs and re-raises; tenacity then stops with RetryError or waits.
RetryAttempt ==
    /\ r_pc = "attempt"
    /\ \E ok \in BOOLEAN :
         LET succeeded == ok \/ r_op.empty
             n == Len(r_outcomes) + 1
         IN IF succeeded
            THEN /\ r_outcomes' = Append(r_outcomes, "ok")
                 /\ r_pc' = "returned"
                 /\ r_result' = IF r_op.empty THEN "empty_list" ELSE "value"
                 /\ r_log' = Append(r_log, [op |-> r_op, attempts |-> n, result |-> r_result'])
                 /\ UNCHANGED r_waits
            ELSE /\ r_outcomes' = Append(r_outcomes, "fail")
                 /\ IF ShouldStop(n)
                    THEN /\ r_pc' = "raised"
                         /\ r_result' = "RetryError"
                         /\ r_log' = Append(r_log, [op |-> r_op, attempts |-> n,
                                                     result |-> "RetryError"])
                         /\ UNCHANGED r_waits
                    ELSE /\ r_pc' = "backoff"
                         /\ r_waits' = Append(r_waits, WaitExponential(n))
                         /\ UNCHANGED << r_result, r_log >>
    /\ UNCHANGED r_op
    /\ UNCHANGED notRetry

\* The wait is over: the next attempt starts.
RetryWake ==
    /\ r_pc = "backoff"
    /\ r_pc' = "attempt"
    /\ UNCHANGED << r_op, r_outcomes, r_waits, r_result, r_log >>
    /\ UNCHANGED notRetry

NextRetry ==
    \/ RetryCall
    \/ RetryAttempt
    \/ RetryWake

(***************************************************************************)
(*        EmailIndexerService.start / stop / _scheduled_indexing           *)
(***************************************************************************)

MaxStarts == 2       \* start() calls that set the running flag

\* A start() call that has not been made yet.
NoLoop == [pc |-> "none", stopped |-> FALSE, woke_after_stop |-> FALSE,
           pass_after_stop |-> FALSE]

SvcInit ==
    /\ svc_loops = [k \in 1..MaxStarts |-> NoLoop]
    /\ svc_started = 0

SvcIdle == SvcInit

\* The test of `while self.is_running` (line 89), made without suspension
\* whenever the loop comes round: sleep for the interval, or leave.
LoopTest(running_flag) == IF running_flag THEN "sleeping" ELSE "exited"

\* start(), lines 69-77: with the flag set it returns at once; otherwise it
\* sets the flag and awaits the initial pass.
SvcStart ==
    /\ ~is_running
    /\ svc_started < MaxStarts
    /\ is_running' = TRUE
    /\ svc_started' = svc_started + 1
    /\ svc_loops' = [svc_loops EXCEPT ![svc_started + 1] = [NoLoop EXCEPT !.pc = "initial_pass"]]
    /\ UNCHANGED notSvc

\* start(), lines 77-80: the initial pass returns and the loop is created
\* as a task; or the pass raises and start() raises with it.
SvcInitialPassEnd ==
    /\ \E k \in 1..MaxStarts :
         /\ svc_loops[k].pc = "initial_pass"
         /\ \E raised \in BOOLEAN :
              svc_loops' = [svc_loops EXCEPT ![k].pc = IF raised THEN "start_raised"
                                                       ELSE "scheduled"]
    /\ UNCHANGED << is_running, svc_started >>
    /\ UNCHANGED notSvc

\* The task created for _scheduled_indexing gets to run: line 89.
SvcLoopBegin ==
    /\ \E k \in 1..MaxStarts :
         /\ svc_loops[k].pc = "scheduled"
         /\ svc_loops' = [svc_loops EXCEPT ![k].pc = LoopTest(is_running)]
    /\ UNCHANGED << is_running, svc_started >>
    /\ UNCHANGED notSvc

\* The interval sleep ends, lines 93-96: with the flag set a pass is
\* started, otherwise the loop comes round to its test.
SvcWake ==
    /\ \E k \in 1..MaxStarts :
         /\ svc_loops[k].pc = "sleeping"
         /\ svc_loops' = [svc_loops EXCEPT
               ![k].pc = IF is_running THEN "pass" ELSE LoopTest(is_running),
               ![k].woke_after_stop = @ \/ svc_loops[k].stopped,
               ![k].pass_after_stop = @ \/ (svc_loops[k].stopped /\ is_running)]
    /\ UNCHANGED << is_running, svc_started >>
    /\ UNCHANGED notSvc

\* A variant of OnPassError without the try block: the exception ends the
\* loop's task.
OnPassErrorUncaught(running_flag) == "exited"

\* Lines 98-100: the except clause inside the loop logs and sleeps 300 s.
OnPassError(running_flag) == "error_sleep"

\* The pass of the loop returns, or raises: lines 96-100.
SvcPassEnd ==
    /\ \E k \in 1..MaxStarts :
         /\ svc_loops[k].pc = "pass"
         /\ \E raised \in BOOLEAN :
              svc_loops' = [svc_loops EXCEPT ![k].pc = IF raised THEN OnPassError(is_running)
                                                       ELSE LoopTest(is_running)]
    /\ UNCHANGED << is_running, svc_started >>
    /\ UNCHANGED notSvc

\* The five-minute sleep after a failed pass ends: line 100, then line 89.
SvcErrorWake ==
    /\ \E k \in 1..MaxStarts :
         /\ svc_loops[k].pc = "error_sleep"
         /\ svc_loops' = [svc_loops EXCEPT ![k].pc = LoopTest(is_running)]
    /\ UNCHANGED << is_running, svc_started >>
    /\ UNCHANGED notSvc

\* stop(), lines 82-85: the flag is cleared; nothing else is touched.  The
\* loops alive at this point are marked as stopped.
SvcStop ==
    /\ \E k \in 1..MaxStarts : svc_loops[k].pc \notin {"none", "exited", "start_raised"}
    /\ is_running' = FALSE
    /\ svc_loops' = [k \in 1..MaxStarts |->
                      IF svc_loops[k].pc \in {"none", "exited", "start_raised"}
                      THEN svc_loops[k]
                      ELSE [svc_loops[k] EXCEPT !.stopped = TRUE]]
    /\ UNCHANGED svc_started
    /\ UNCHANGED notSvc

NextService ==
    \/ SvcStart
    \/ SvcInitialPassEnd
    \/ SvcLoopBegin
    \/ SvcWake
    \/ SvcPassEnd
    \/ SvcErrorWake
    \/ SvcStop

\* A step of the loop created by the k-th start(): a sleep of it ends or its
\* pass ends.  The event loop resumes a task whose sleep is over, and a pass
\* comes to an end.
SvcLoopStep(k) ==
    /\ SvcLoopBegin \/ SvcWake \/ SvcPassEnd \/ SvcErrorWake
    /\ svc_loops'[k] # svc_loops[k]

(***************************************************************************)
(*                              GmailClient                                *)
(***************************************************************************)

MaxGmailOps == 3     \* operations called on one client
MaxListed   == 2     \* messages a listing returns

GmailOps == {"list_messages", "get_message", "search_emails", "get_recent_emails"}

\* What a provider call (.execute()) does: it returns, it raises the API's
\* HttpError, or it raises something else (a transport or credentials
\* failure: socket timeout, unreachable server, refresh error).
ProviderOutcomes == {"ok", "http_error", "transport_error"}

NoGmailResult == [kind |-> "none", n |-> 0]
EmptyList     == [kind |-> "list", n |-> 0]
Absent        == [kind |-> "absent", n |-> 0]
Raised        == [kind |-> "raised", n |-> 0]

\* __init__ / _authenticate: the service is built, or (client-secrets file
\* missing, line 56-59) authentication is abandoned and service stays None.
GmailInit ==
    /\ service \in BOOLEAN
    /\ g_pc = "idle"
    /\ g_op = "-"
    /\ g_listed = 0
    /\ g_pos = 0
    /\ g_parsed = 0
    /\ g_result = NoGmailResult
    /\ g_provider_calls = 0
    /\ g_failure = "none"
    /\ g_ops = 0

GmailIdle == GmailInit /\ service

\* An operation is called.  get_message tests the service at line 138,
\* list_messages at line 107; search_emails and get_recent_emails go
\* through list_messages (lines 317, 346).
GmailCall ==
    /\ g_pc \in {"idle", "returned"}
    /\ g_ops < MaxGmailOps
    /\ g_ops' = g_ops + 1
    /\ \E op \in GmailOps :
         /\ g_op' = op
         /\ IF service
            THEN /\ g_pc' = IF op = "get_message" THEN "getting" ELSE "listing"
                 /\ g_result' = NoGmailResult
            ELSE /\ g_pc' = "returned"
                 /\ g_result' = IF op = "get_message" THEN Absent ELSE EmptyList
    /\ g_listed' = 0
    /\ g_pos' = 0
    /\ g_parsed' = 0
    /\ g_provider_calls' = 0
    /\ g_failure' = "none"
    /\ UNCHANGED service
    /\ UNCHANGED notGmail

\* list_messages, lines 111-124: the listing call.  HttpError gives [];
\* any other exception leaves list_messages, and its caller, unhandled.
GmailList ==
    /\ g_pc = "listing"
    /\ g_provider_calls' = g_provider_calls + 1
    /\ \E outcome \in ProviderOutcomes, n \in 0..MaxListed :
         CASE outcome = "ok" ->
                /\ g_listed' = n
                /\ IF g_op = "list_messages" \/ n = 0
                   THEN /\ g_pc' = "returned"
                        /\ g_result' = [kind |-> "list", n |-> IF g_op = "list_messages" THEN n ELSE 0]
                        /\ UNCHANGED g_pos
                   ELSE /\ g_pc' = "getting"
                        /\ g_pos' = 1
                        /\ UNCHANGED g_result
                /\ UNCHANGED g_failure
           [] outcome = "http_error" ->
                /\ g_pc' = "returned"
                /\ g_result' = EmptyList
                /\ g_failure' = outcome
                /\ UNCHANGED << g_listed, g_pos >>
           [] OTHER ->
                /\ g_pc' = "returned"
                /\ g_result' = Raised
                /\ g_failure' = outcome
                /\ UNCHANGED << g_listed, g_pos >>
    /\ UNCHANGED << service, g_op, g_parsed, g_ops >>
    /\ UNCHANGED notGmail

\* get_message, lines 141-150, called directly or from the loop of
\* search_emails (lines 321-325), which skips a message that came back None.
GmailGet ==
    /\ g_pc = "getting"
    /\ g_provider_calls' = g_provider_calls + 1
    /\ \E outcome \in ProviderOutcomes :
         LET parsed == IF outcome = "ok" THEN g_parsed + 1 ELSE g_parsed IN
         IF outcome = "transport_error"
         THEN /\ g_pc' = "returned"
              /\ g_result' = Raised
              /\ g_failure' = outcome
              /\ UNCHANGED << g_pos, g_parsed >>
         ELSE /\ g_failure' = IF outcome = "ok" THEN g_failure ELSE outcome
              /\ IF g_op = "get_message"
                 THEN /\ g_pc' = "returned"
                      /\ g_result' = IF outcome = "ok" THEN [kind |-> "message", n |-> 1]
                                      ELSE Absent
                      /\ UNCHANGED << g_pos, g_parsed >>
                 ELSE /\ g_parsed' = parsed
                      /\ IF g_pos < g_listed
                         THEN /\ g_pos' = g_pos + 1
                              /\ UNCHANGED << g_pc, g_result >>
                         ELSE /\ g_pc' = "returned"
                              /\ g_result' = [kind |-> "list", n |-> parsed]
                              /\ UNCHANGED g_pos
    /\ UNCHANGED << service, g_op, g_listed, g_ops >>
    /\ UNCHANGED notGmail

NextGmail ==
    \/ GmailCall
    \/ GmailList
    \/ GmailGet

(***************************************************************************)
(*                     VectorStore: the public operations                  *)
(***************************************************************************)

MaxVsOps == 3        \* operations called on the VectorStore objects

VectorStoreOps == {"add_email", "add_conversation", "semantic_search", "search_emails",
                   "get_by_id", "delete_by_id", "get_collection_stats"}

\* The operations whose body calls _ensure_collection_exists (lines 108, 189,
\* 243; search_emails goes through semantic_search, line 317).
EnsuresCollection(op) ==
    op \in {"add_email", "add_conversation", "semantic_search", "search_emails"}

NoVsOp == [inst |-> "-", op |-> "-", handle_valid |-> TRUE, outcome |-> "-"]

\* add_conversation, lines 207-217: the stored document; it carries none of
\* the email keys.
ConversationDoc(uuid) ==
    [doc_id |-> << "conv_", uuid >>, email_id |-> << >>, original_email_id |-> "-",
     is_chunked |-> FALSE, chunk_index |-> -1, total_chunks |-> 0]

\* What an operation gives its caller when the collection call raises on a
\* dangling handle: get_by_id swallows it (line 370), so does delete_by_id
\* (line 379); get_collection_stats has no handler.
OnDanglingHandle(op) ==
    CASE op = "get_by_id" -> "None"
      [] op = "delete_by_id" -> "error_logged"
      [] OTHER -> "raised"

VsInit ==
    /\ vs_last = NoVsOp
    /\ vs_ops = 0

VsIdle == VsInit

\* One of the seven operations on instance inst.  _ensure_collection_exists
\* (lines 52-73) replaces a dangling handle by the collection of that name.
VsOperation ==
    /\ vs_ops < MaxVsOps
    /\ vs_ops' = vs_ops + 1
    /\ \E inst \in VSInstances, op \in VectorStoreOps :
         LET ensured == EnsuresCollection(op)
             valid   == ensured \/ HandleValid(inst)
         IN /\ stale_handles' = IF ensured THEN stale_handles \ {inst} ELSE stale_handles
            /\ vs_last' = [inst |-> inst, op |-> op, handle_valid |-> valid,
                           outcome |-> IF valid THEN "done" ELSE OnDanglingHandle(op)]
            /\ CASE op = "add_email" ->
                     collection' = collection \cup
                        {AddEmail(DocId(PlainEmailId("m1"), vs_ops + 1), PlainEmailId("m1"),
                                  IndexEmailCallsOf["m1"][1].meta)}
                 [] op = "add_conversation" ->
                     collection' = collection \cup {ConversationDoc(vs_ops + 1)}
                 [] op = "delete_by_id" /\ valid /\ collection # {} ->
                     \E d \in collection : collection' = collection \ {d}
                 [] OTHER -> UNCHANGED collection
    /\ UNCHANGED << es_storage, storage_file >>
    /\ UNCHANGED notVs

\* clear_all_data called on instance inst (lines 390-406).
VsClearAllData ==
    /\ vs_ops < MaxVsOps
    /\ vs_ops' = vs_ops + 1
    /\ \E inst \in VSInstances :
         /\ SetStores(clear_all_data(Stores, inst))
         /\ vs_last' = [NoVsOp EXCEPT !.inst = inst, !.op = "clear_all_data",
                                      !.outcome = "done"]
    /\ UNCHANGED notVs

NextVectorStore ==
    \/ VsOperation
    \/ VsClearAllData

(***************************************************************************)
(*                AutonomousEmailAgent._get_email_details                  *)
(***************************************************************************)

MaxDetailOps == 4    \* steps of the details model

\* The ids a caller passes: a bare message id or the id of a chunk document.
DetailIds == {PlainEmailId(Mailbox[i]) : i \in 1..Len(Mailbox)}
             \cup {ChunkDocEmailId(Mailbox[i], c) : i \in 1..Len(Mailbox), c \in 0..1}

\* Lines 300-303: email_id.split('_chunk_')[0] when '_chunk_' occurs in it.
CleanEmailId(email_id) ==
    IF \E k \in 1..Len(email_id) : email_id[k] = "_chunk_"
    THEN SubSeq(email_id, 1,
                (CHOOSE k \in 1..Len(email_id) :
                    /\ email_id[k] = "_chunk_"
                    /\ \A j \in 1..(k - 1) : email_id[j] # "_chunk_") - 1)
    ELSE email_id

\* The storage key an id stands for: the message id of a bare id.
StorageKey(email_id) == IF Len(email_id) = 1 THEN email_id[1] ELSE "None"

NoDetails == [asked |-> << >>, email_id |-> << >>, source |-> "-", complete |-> FALSE,
              body |-> "-", error |-> FALSE, mailbox_called |-> FALSE,
              storage_held |-> FALSE]

\* Lines 297-378.  in_mailbox: get_email_by_id returns the parsed message
\* (it returns None on every failure, email_tools.py:96-104).
GetEmailDetails(s, email_id, in_mailbox) ==
    LET clean_email_id == CleanEmailId(email_id)
        stored_email   == get_email(s, "agent", StorageKey(clean_email_id))
        held           == StorageKey(clean_email_id) \in s.storage_file
    IN IF stored_email # "None"
       THEN [NoDetails EXCEPT !.asked = email_id, !.email_id = clean_email_id,
                              !.source = "email_storage", !.complete = TRUE,
                              !.body = stored_email, !.storage_held = held]
       ELSE IF in_mailbox
       THEN [NoDetails EXCEPT !.asked = email_id, !.email_id = clean_email_id,
                              !.source = "gmail_api", !.complete = TRUE,
                              !.body = StorageKey(clean_email_id),
                              !.mailbox_called = TRUE, !.storage_held = held]
       ELSE [NoDetails EXCEPT !.asked = email_id, !.error = TRUE,
                              !.mailbox_called = TRUE, !.storage_held = held]

DetInit ==
    /\ d_last = NoDetails
    /\ d_ops = 0

DetIdle == DetInit

\* The tool is called on the agent.
DetGetEmailDetails ==
    /\ d_ops < MaxDetailOps
    /\ d_ops' = d_ops + 1
    /\ \E email_id \in DetailIds, in_mailbox \in BOOLEAN :
         d_last' = GetEmailDetails(Stores, email_id, in_mailbox)
    /\ UNCHANGED << es_storage, storage_file >>
    /\ UNCHANGED notDet

\* The indexer stores the full record of a message (email_indexer.py:175).
DetIndexerStores ==
    /\ d_ops < MaxDetailOps
    /\ d_ops' = d_ops + 1
    /\ \E i \in 1..Len(Mailbox) :
         LET s == store_email(Stores, "indexer", Mailbox[i]) IN
         /\ es_storage' = s.es_storage
         /\ storage_file' = s.storage_file
    /\ UNCHANGED d_last
    /\ UNCHANGED notDet

\* A new agent is constructed: its EmailStorage loads the file
\* (email_storage.py:20-34).
DetAgentConstructed ==
    /\ d_ops < MaxDetailOps
    /\ d_ops' = d_ops + 1
    /\ es_storage' = [es_storage EXCEPT !["agent"] = storage_file]
    /\ UNCHANGED << storage_file, d_last >>
    /\ UNCHANGED notDet

NextDetails ==
    \/ DetGetEmailDetails
    \/ DetIndexerStores
    \/ DetAgentConstructed

(***************************************************************************)
(*                  AutonomousEmailAgent.process_query                     *)
(***************************************************************************)

MaxQueryRuns == 2    \* process_query calls

NoQueryReturn == [raised |-> FALSE, answer |-> "none", error |-> FALSE]

\* What BaseAgent.run can hand back: it catches every exception itself.
AgentReturns ==
    {FinalReturn("llm_answer"), FinalReturn("fallback_answer"),
     ForcedFinalReturn("llm_answer"), ExhaustedReturn, ErrorReturn}

\* Lines 626-634: the except clause of process_query.
OnQueryException(e) == [raised |-> FALSE, answer |-> "error_text", error |-> TRUE]

\* Lines 614-623: the response built from the agent's.
FinalResponse(response) == [raised |-> FALSE, answer |-> response.answer, error |-> FALSE]

\* learn_from_interaction (memory_manager.py:80-92) with an exception
\* raised at point fail_at of its try block: 0 none, 1 before the user
\* message is added, 2 between the two messages, 3 after both.  Its own
\* except clause logs the exception; nothing is raised to the caller.
LearnUpTo(mem, fail_at, n) ==
    CASE fail_at = 1 -> mem
      [] fail_at = 2 -> AddMessage(mem, "user", n + 1)
      [] OTHER -> AddMessage(AddMessage(mem, "user", n + 1), "assistant", n + 2)

QueryInit ==
    /\ q_pc = "idle"
    /\ q_response = NoReturn
    /\ q_ret = NoQueryReturn
    /\ q_failed = "none"
    /\ q_learn_calls = 0
    /\ q_runs = 0

QueryIdle == QueryInit

\* process_query is called.
QueryCall ==
    /\ q_pc \in {"idle", "returned"}
    /\ q_runs < MaxQueryRuns
    /\ q_runs' = q_runs + 1
    /\ q_pc' = "history"
    /\ q_response' = NoReturn
    /\ q_ret' = NoQueryReturn
    /\ q_failed' = "none"
    /\ q_learn_calls' = 0
    /\ UNCHANGED << messages, summary, message_count, m_clock >>
    /\ UNCHANGED notQuery

\* Line 591: the history is read; an exception goes to line 626.
QueryGetHistory ==
    /\ q_pc = "history"
    /\ \E raises \in BOOLEAN :
         IF raises
         THEN /\ q_pc' = "returned"
              /\ q_failed' = "history"
              /\ q_ret' = OnQueryException("history")
         ELSE /\ q_pc' = "agent"
              /\ UNCHANGED << q_failed, q_ret >>
    /\ UNCHANGED << q_response, q_learn_calls, q_runs, messages, summary, message_count,
                    m_clock >>
    /\ UNCHANGED notQuery

\* Lines 600-603: the awaited agent loop returns.
QueryAgentRun ==
    /\ q_pc = "agent"
    /\ \E response \in AgentReturns :
         /\ q_response' = response
         /\ q_failed' = IF response = ErrorReturn THEN "agent" ELSE q_failed
    /\ q_pc' = "learn"
    /\ UNCHANGED << q_ret, q_learn_calls, q_runs, messages, summary, message_count,
                    m_clock >>
    /\ UNCHANGED notQuery

\* Lines 606-624: the turn is recorded and the response returned.
QueryLearnAndReturn ==
    /\ q_pc = "learn"
    /\ q_learn_calls' = q_learn_calls + 1
    /\ \E fail_at \in 0..3 :
         /\ SetMemory(LearnUpTo(Memory, fail_at, m_clock))
         /\ q_failed' = IF fail_at # 0 THEN "learn" ELSE q_failed
    /\ m_clock' = m_clock + 2
    /\ q_ret' = FinalResponse(q_response)
    /\ q_pc' = "returned"
    /\ UNCHANGED << q_response, q_runs >>
    /\ UNCHANGED notQuery

NextQuery ==
    \/ QueryCall
    \/ QueryGetHistory
    \/ QueryAgentRun
    \/ QueryLearnAndReturn

(***************************************************************************)
(*                     DecisionEngine.analyze_query                        *)
(***************************************************************************)

MaxAnalyses == 2    \* analyze_query calls

\* Python values are written as their repr; a key a dict lacks is "absent".
Truthy(v) == v \in {"True", "'yes'"}
PyOr(a, b) == IF Truthy(a) THEN a ELSE b
PyBool(b) == IF b THEN "True" ELSE "False"

\* datetime.now(): local wall-clock time, day as an ordinal.
Nows ==
    {[day |-> 10, hour |-> 0,  minute |-> 0,  second |-> 0,  microsecond |-> 0],
     [day |-> 10, hour |-> 0,  minute |-> 0,  second |-> 0,  microsecond |-> 250],
     [day |-> 10, hour |-> 13, minute |-> 30, second |-> 45, microsecond |-> 250]}

\* The words of the time patterns a query may contain.
TimeWords == {"today", "yesterday", "recent"}

\* A query: whether it is a str at all, whether one of the
\* email_search_patterns matches it, the time words it contains, and the
\* clock when it is analysed.
Queries ==
    [is_str : BOOLEAN, matches_pattern : BOOLEAN, words : SUBSET TimeWords, now : Nows]

\* What generate_response can give _semantic_analysis.
SemanticReplies ==
    {[kind |-> "raises", requires_email_data |-> "absent"],
     [kind |-> "not_json", requires_email_data |-> "absent"],
     [kind |-> "json_list", requires_email_data |-> "absent"]}
    \cup {[kind |-> "json_object", requires_email_data |-> v] :
             v \in {"True", "False", "'yes'", "absent"}}

\* now.replace(hour=0, minute=0, second=0), lines 137 and 146-147.
ReplaceHourMinuteSecond(t) == [t EXCEPT !.hour = 0, !.minute = 0, !.second = 0]

\* t - timedelta(days=n)
MinusDays(t, n) == [t EXCEPT !.day = @ - n]

\* Lines 131-180.
ExtractTimeConstraint(q) ==
    IF "today" \in q.words
    THEN [after |-> ReplaceHourMinuteSecond(q.now), before |-> "None",
          description |-> "today"]
    ELSE IF "yesterday" \in q.words
    THEN [after |-> ReplaceHourMinuteSecond(MinusDays(q.now, 1)),
          before |-> ReplaceHourMinuteSecond(q.now), description |-> "yesterday"]
    ELSE IF "recent" \in q.words
    THEN [after |-> MinusDays(q.now, 7), before |-> "None",
          description |-> "recent (7 days)"]
    ELSE "None"

\* A variant of SemanticAnalysis whose except clause answers that no email
\* data is needed.
SemanticAnalysisOptimistic(reply) ==
    IF reply.kind \in {"raises", "not_json"}
    THEN [is_dict |-> TRUE, requires_email_data |-> "False"]
    ELSE [is_dict |-> reply.kind = "json_object",
          requires_email_data |-> reply.requires_email_data]

\* Lines 211-244: what json.loads gave, or the except clause's dict.
SemanticAnalysis(reply) ==
    IF reply.kind \in {"raises", "not_json"}
    THEN [is_dict |-> TRUE, requires_email_data |-> "True"]
    ELSE [is_dict |-> reply.kind = "json_object",
          requires_email_data |-> reply.requires_email_data]

\* semantic_analysis.get('requires_email_data', False)
GetRequiresEmailData(sem) ==
    IF sem.requires_email_data = "absent" THEN "False" ELSE sem.requires_email_data

\* Lines 107-114: the except clause of analyze_query.
AnalysisFallback ==
    [needs_rag |-> "True", needs_search |-> "True", time_constraint |-> "absent"]

\* A variant of CombineSignals in which only the semantic analysis decides
\* needs_rag.
CombineSignalsSplit(q, sem) ==
    [needs_rag |-> GetRequiresEmailData(sem),
     needs_search |-> PyOr(PyBool(q.matches_pattern), GetRequiresEmailData(sem)),
     time_constraint |-> ExtractTimeConstraint(q)]

\* Lines 73-104, after the semantic analysis.
CombineSignals(q, sem) ==
    LET needs_rag == PyOr(PyBool(q.matches_pattern), GetRequiresEmailData(sem))
    IN  [needs_rag |-> needs_rag, needs_search |-> needs_rag,
         time_constraint |-> ExtractTimeConstraint(q)]

NoAnalysis == [needs_rag |-> "-", needs_search |-> "-", time_constraint |-> "absent"]
NoQuery == [is_str |-> TRUE, matches_pattern |-> FALSE, words |-> {},
            now |-> CHOOSE t \in Nows : t.microsecond = 0]
NoSemanticReply == [kind |-> "-", requires_email_data |-> "absent"]

DecisionInit ==
    /\ de_pc = "idle"
    /\ de_query = NoQuery
    /\ de_reply = NoSemanticReply
    /\ de_failed = "none"
    /\ de_result = NoAnalysis
    /\ de_runs = 0

DecisionIdle == DecisionInit

\* Lines 58-70: analyze_query runs up to the awaited LLM call; query.lower()
\* raises on a query that is no str.
AnalyzeQueryCall ==
    /\ de_pc \in {"idle", "returned"}
    /\ de_runs < MaxAnalyses
    /\ de_runs' = de_runs + 1
    /\ de_reply' = NoSemanticReply
    /\ \E q \in Queries :
         /\ de_query' = q
         /\ IF q.is_str
            THEN /\ de_pc' = "semantic"
                 /\ de_failed' = "none"
                 /\ de_result' = NoAnalysis
            ELSE /\ de_pc' = "returned"
                 /\ de_failed' = "step"
                 /\ de_result' = AnalysisFallback
    /\ UNCHANGED notDecision

\* Lines 70-114: the LLM call ends and the signals are combined; a reply
\* that is JSON but no object makes .get raise, and any later step may
\* raise (step_raises).
AnalyzeQueryReturn ==
    /\ de_pc = "semantic"
    /\ \E reply \in SemanticReplies, step_raises \in BOOLEAN :
         LET sem == SemanticAnalysis(reply)
         IN  /\ de_reply' = reply
             /\ de_failed' = IF ~sem.is_dict \/ step_raises THEN "step"
                              ELSE IF reply.kind \in {"raises", "not_json"} THEN "semantic"
                              ELSE "none"
             /\ de_result' = IF ~sem.is_dict \/ step_raises
                              THEN AnalysisFallback
                              ELSE CombineSignals(de_query, sem)
    /\ de_pc' = "returned"
    /\ UNCHANGED << de_query, de_runs >>
    /\ UNCHANGED notDecision

NextDecision ==
    \/ AnalyzeQueryCall
    \/ AnalyzeQueryReturn

(***************************************************************************)
(*                  EmailIndexerService._categorize_email                  *)
(***************************************************************************)

\* Lines 372-379: the categories dict, in insertion order.
categories ==
    <<
       [category |-> "placement",
        keywords |-> <<
            << "p", "l", "a", "c", "e", "m", "e", "n", "t" >>,
            << "c", "a", "m", "p", "u", "s" >>,
            << "r", "e", "c", "r", "u", "i", "t", "m", "e", "n", "t" >>,
            << "j", "o", "b" >>,
            << "i", "n", "t", "e", "r", "v", "i", "e", "w" >>,
            << "c", "o", "m", "p", "a", "n", "y", " ", "v", "i", "s", "i", "t" >>,
            << "h", "i", "r", "i", "n", "g" >> >>],
       [category |-> "academic",
        keywords |-> <<
            << "e", "x", "a", "m" >>,
            << "a", "s", "s", "i", "g", "n", "m", "e", "n", "t" >>,
            << "c", "l", "a", "s", "s" >>,
            << "l", "e", "c", "t", "u", "r", "e" >>,
            << "c", "o", "u", "r", "s", "e" >>,
            << "s", "e", "m", "e", "s", "t", "e", "r" >>,
            << "g", "r", "a", "d", "e" >> >>],
       [category |-> "meeting",
        keywords |-> <<
            << "m", "e", "e", "t", "i", "n", "g" >>,
            << "s", "c", "h", "e", "d", "u", "l", "e" >>,
            << "c", "a", "l", "e", "n", "d", "a", "r" >>,
            << "c", "o", "n", "f", "e", "r", "e", "n", "c", "e" >>,
            << "z", "o", "o", "m" >>,
            << "t", "e", "a", "m", "s" >> >>],
       [category |-> "notification",
        keywords |-> <<
            << "n", "o", "t", "i", "f", "i", "c", "a", "t", "i", "o", "n" >>,
            << "a", "l", "e", "r", "t" >>,
            << "r", "e", "m", "i", "n", "d", "e", "r" >>,
            << "u", "p", "d", "a", "t", "e" >>,
            << "a", "n", "n", "o", "u", "n", "c", "e", "m", "e", "n", "t" >> >>],
       [category |-> "personal",
        keywords |-> <<
            << "p", "e", "r", "s", "o", "n", "a", "l" >>,
            << "f", "a", "m", "i", "l", "y" >>,
            << "f", "r", "i", "e", "n", "d" >> >>],
       [category |-> "work",
        keywords |-> <<
            << "p", "r", "o", "j", "e", "c", "t" >>,
            << "d", "e", "a", "d", "l", "i", "n", "e" >>,
            << "t", "a", "s", "k" >>,
            << "r", "e", "p", "o", "r", "t" >>,
            << "w", "o", "r", "k" >>,
            << "o", "f", "f", "i", "c", "e" >> >>]
    >>

\* keyword in text
RECURSIVE Contains(_, _)
Contains(text, keyword) ==
    IF Len(keyword) > Len(text) THEN FALSE
    ELSE IF SubSeq(text, 1, Len(keyword)) = keyword THEN TRUE
    ELSE Contains(Tail(text), keyword)

\* Lines 382-384: the loop over the categories from bucket k on; 0 when no
\* bucket matches.
RECURSIVE FirstBucket(_, _)
FirstBucket(text, k) ==
    IF k > Len(categories) THEN 0
    ELSE IF \E i \in 1..Len(categories[k].keywords) :
               Contains(text, categories[k].keywords[i])
    THEN k
    ELSE FirstBucket(text, k + 1)

\* Lines 386-394.
LabelCategory(labels) ==
    IF "CATEGORY_PROMOTIONS" \in labels THEN "promotional"
    ELSE IF "CATEGORY_SOCIAL" \in labels THEN "social"
    ELSE IF "CATEGORY_UPDATES" \in labels THEN "updates"
    ELSE "general"

\* A variant of categorize_email that consults the labels first.
categorize_email_labels_first(subject, body, labels) ==
    LET text == Lower(subject \o << " " >> \o body)
        k    == FirstBucket(text, 1)
    IN  IF LabelCategory(labels) # "general" THEN LabelCategory(labels)
        ELSE IF k # 0 THEN categories[k].category
        ELSE "general"

\* Lines 358-395.
categorize_email(subject, body, labels) ==
    LET text == Lower(subject \o << " " >> \o body)
        k    == FirstBucket(text, 1)
    IN  IF k # 0 THEN categories[k].category ELSE LabelCategory(labels)

\* The subjects, bodies and label sets the function is called with.
Subjects ==
    {<< "J", "o", "b" >>,
     << "E", "X", "A", "M", " ", "z", "o", "o", "m" >>,
     << "c", "o", "m", "p", "a", "n", "y" >>,
     << "H", "e", "l", "l", "o" >>,
     << >>}

Bodies ==
    {<< "v", "i", "s", "i", "t" >>,
     << "n", "e", "t", "w", "o", "r", "k", " ", "a", "l", "e", "r", "t" >>,
     << "F", "a", "m", "i", "l", "y" >>,
     << "s", "a", "l", "e" >>,
     << >>}

LabelSets == SUBSET {"CATEGORY_PROMOTIONS", "CATEGORY_SOCIAL", "CATEGORY_UPDATES", "INBOX"}

NoCategorizeInput == [subject |-> << >>, body |-> << >>, labels |-> {}]

CategorizeInit ==
    /\ cat_pc = "called"
    /\ cat_input \in [subject : Subjects, body : Bodies, labels : LabelSets]
    /\ cat_result = "-"

CategorizeIdle ==
    /\ cat_pc = "idle"
    /\ cat_input = NoCategorizeInput
    /\ cat_result = "-"

CategorizeEmailRun ==
    /\ cat_pc = "called"
    /\ cat_result' = categorize_email(cat_input.subject, cat_input.body, cat_input.labels)
    /\ cat_pc' = "returned"
    /\ UNCHANGED cat_input
    /\ UNCHANGED notCategorize

NextCategorize == CategorizeEmailRun

(***************************************************************************)
(*      GmailClient, CalendarClient and TasksClient: _authenticate         *)
(***************************************************************************)

\* The three clients; their _authenticate methods differ in the API built.
ApiClients == {"gmail", "calendar", "tasks"}

\* creds = None
NoCreds == [present |-> FALSE, valid |-> FALSE, expired |-> FALSE, refresh_token |-> FALSE]

\* The Credentials objects a token file can hold: valid ones are not
\* expired; the refresh token may be missing in either case.
CachedCreds ==
    {c \in [present : {TRUE}, valid : BOOLEAN, expired : BOOLEAN, refresh_token : BOOLEAN] :
        c.valid => ~c.expired}

\* google_token_path: no file, a file from_authorized_user_file cannot
\* read, or a file holding credentials.
TokenFiles ==
    {[kind |-> "absent", creds |-> NoCreds], [kind |-> "unreadable", creds |-> NoCreds]}
    \cup {[kind |-> "creds", creds |-> c] : c \in CachedCreds}

\* Lines 35-43: the cached credentials are loaded; a missing file or an
\* exception of the loader leaves creds None.
LoadToken(file) == IF file.kind = "creds" THEN file.creds ELSE NoCreds

\* `not creds or not creds.valid`
NeedsCredentials(creds) == ~creds.present \/ ~creds.valid

\* `creds and creds.expired and creds.refresh_token`
CanRefresh(creds) == creds.present /\ creds.expired /\ creds.refresh_token

\* creds.refresh(Request()) returned: the credentials are valid.
Refreshed(creds) == [creds EXCEPT !.valid = TRUE, !.expired = FALSE]

\* flow.run_local_server returned the credentials of a granted consent.
ConsentCreds(refresh_token) ==
    [present |-> TRUE, valid |-> TRUE, expired |-> FALSE, refresh_token |-> refresh_token]

AuthInit ==
    /\ au_pc = "start"
    /\ au_client \in ApiClients
    /\ au_token \in TokenFiles
    /\ au_secrets \in BOOLEAN
    /\ au_creds = NoCreds
    /\ au_in_block = FALSE
    /\ au_service = FALSE
    /\ au_written = "none"

AuthIdle ==
    /\ au_pc = "start"
    /\ au_client = "gmail"
    /\ au_token = [kind |-> "absent", creds |-> NoCreds]
    /\ au_secrets = TRUE
    /\ au_creds = NoCreds
    /\ au_in_block = FALSE
    /\ au_service = FALSE
    /\ au_written = "none"

\* Lines 63-70 with credentials in hand: inside the refresh-or-new block
\* they are written to the token file; the service is built.
SaveAndBuild(creds, in_block) ==
    /\ au_creds' = creds
    /\ IF in_block
       THEN /\ au_token' = [kind |-> "creds", creds |-> creds]
            /\ au_written' = IF creds.valid THEN "valid" ELSE "invalid"
       ELSE UNCHANGED << au_token, au_written >>
    /\ au_service' = TRUE
    /\ au_pc' = "done"

\* Lines 54-70, from `if not creds:` on, up to the consent flow.
ObtainOrBuild(creds, in_block) ==
    IF in_block /\ ~creds.present
    THEN /\ au_creds' = creds
         /\ au_pc' = IF au_secrets THEN "flow" ELSE "done"
         /\ UNCHANGED << au_token, au_service, au_written >>
    ELSE SaveAndBuild(creds, in_block)

\* Lines 31-47: the token is loaded and the first tests are made.
AuthStart ==
    /\ au_pc = "start"
    /\ LET creds == LoadToken(au_token)
           in_block == NeedsCredentials(creds)
       IN  /\ au_in_block' = in_block
           /\ IF in_block /\ CanRefresh(creds)
              THEN /\ au_pc' = "refresh"
                   /\ au_creds' = creds
                   /\ UNCHANGED << au_token, au_service, au_written >>
              ELSE ObtainOrBuild(creds, in_block)
    /\ UNCHANGED << au_client, au_secrets >>
    /\ UNCHANGED notAuth

\* Lines 48-52: the refresh request returns or raises.
AuthRefresh ==
    /\ au_pc = "refresh"
    /\ \E raised \in BOOLEAN :
         ObtainOrBuild(IF raised THEN NoCreds ELSE Refreshed(au_creds), au_in_block)
    /\ UNCHANGED << au_client, au_secrets, au_in_block >>
    /\ UNCHANGED notAuth

\* Lines 60-70: the consent flow returns credentials, or raises out of
\* _authenticate.
AuthConsentFlow ==
    /\ au_pc = "flow"
    /\ \E raised \in BOOLEAN, refresh_token \in BOOLEAN :
         IF raised
         THEN /\ au_pc' = "raised"
              /\ UNCHANGED << au_creds, au_token, au_service, au_written >>
         ELSE SaveAndBuild(ConsentCreds(refresh_token), au_in_block)
    /\ UNCHANGED << au_client, au_secrets, au_in_block >>
    /\ UNCHANGED notAuth

NextAuth ==
    \/ AuthStart
    \/ AuthRefresh
    \/ AuthConsentFlow

(***************************************************************************)
(*          EmailAssistant.run with the DecisionEngine's analysis          *)
(***************************************************************************)

\* The needs_rag and needs_search values of the dictionaries analyze_query
\* can return.
AnalysisFlags ==
    {[needs_rag |-> AnalysisFallback.needs_rag, needs_search |-> AnalysisFallback.needs_search]}
    \cup {[needs_rag |-> CombineSignals(q, SemanticAnalysis(reply)).needs_rag,
            needs_search |-> CombineSignals(q, SemanticAnalysis(reply)).needs_search] :
              q \in {x \in Queries : x.is_str},
              reply \in {r \in SemanticReplies : SemanticAnalysis(r).is_dict}}

\* _understand_query (lines 129-173) with the analysis of the decision
\* engine, then the first conditional edge: the two flags are copied from
\* the analysis; an exception before that (get_personalized_context) sets
\* both to True.  The routes test the truth value of the flags.
WfUnderstandAnalysed ==
    /\ w_pc = "understand_query"
    /\ \E failed \in BOOLEAN, analysis \in AnalysisFlags :
         LET state == IF failed
                      THEN [w_state EXCEPT !.needs_rag = TRUE, !.needs_search = TRUE]
                      ELSE [w_state EXCEPT !.needs_rag = Truthy(analysis.needs_rag),
                                           !.needs_search = Truthy(analysis.needs_search)]
         IN /\ w_state' = state
            /\ w_pc' = RouteAfterUnderstanding(state)
    /\ w_path' = Append(w_path, "understand_query")
    /\ UNCHANGED << w_runs, messages, summary, message_count, m_clock >>
    /\ UNCHANGED notWf

\* The steps of a run whose flags come from the analysis.  The node
\* execute_parallel is entered when the second conditional edge names it.
NextPipeline ==
    \/ WfRun
    \/ WfUnderstandAnalysed
    \/ WfPlanSearch
    \/ WfRetrieveWithRag
    \/ WfSynthesizeAnswer
    \/ WfReturn

(***************************************************************************)
(*               AutonomousEmailAgent._search_emails_rag                   *)
(***************************************************************************)

MaxResults   == 3    \* largest n_results a search is called with
MaxIndexings == 3    \* times one message is indexed into the collection

\* Lines 207-211: semantic_search returns the min(n_results, 20) nearest
\* documents, or all of them when the collection holds fewer, each document
\* once, in the order of their distance to the query.
SemanticSearchResults(docs, n_results) ==
    LET n == Min2(Min2(n_results, 20), Cardinality(docs))
    IN  {ids \in [1..n -> docs] : \A i, j \in 1..n : i # j => ids[i] # ids[j]}

\* Lines 250-256: the id reported for a document, as a string.
ReportedEmailId(metadata) ==
    LET original_email_id == IF metadata.original_email_id # ""
                             THEN PlainEmailId(metadata.original_email_id)
                             ELSE metadata.email_id
    IN  IF Len(original_email_id) > 1 /\ original_email_id[2] = "_chunk_"
        THEN << original_email_id[1] >>
        ELSE original_email_id

\* Lines 214-270: the loop over the results.  passing holds the emails whose
\* sender and date pass the post-filters; one entry is appended for every
\* other result.
FormattedEmails(found, passing) ==
    LET kept == SelectSeq(found, LAMBDA d : d.original_email_id \in passing)
    IN  [i \in 1..Len(kept) |-> [email_id |-> ReportedEmailId(kept[i]),
                                 is_chunk |-> kept[i].is_chunked]]

RagSearchInit ==
    /\ rs_pc = "idle"
    /\ rs_collection = {}
    /\ rs_emails = << >>

RagSearchIdle == RagSearchInit

\* _index_email_with_metadata (email_indexer.py:312-350) for message m: one
\* document per add_email call, under a fresh document id.
RagIndexEmail(m) ==
    /\ rs_pc = "idle"
    /\ \E uuid \in 1..MaxIndexings :
         /\ \A d \in rs_collection : d.original_email_id = m => d.doc_id[3] < uuid
         /\ ~ AlreadyIndexed(rs_collection, m)
         /\ rs_collection' = rs_collection \cup
               {AddEmail(DocId(IndexEmailCallsOf[m][k].email_id, uuid),
                         IndexEmailCallsOf[m][k].email_id,
                         IndexEmailCallsOf[m][k].meta) : k \in 1..Len(IndexEmailCallsOf[m])}
    /\ UNCHANGED << rs_pc, rs_emails >>
    /\ UNCHANGED notRagSearch

\* _search_emails_rag (lines 183-283): the search, the loop over its results
\* and the return; an exception gives an empty list.
RagSearch ==
    /\ rs_pc = "idle"
    /\ \E n_results \in 1..MaxResults, raised \in BOOLEAN,
          passing \in SUBSET {Mailbox[i] : i \in 1..Len(Mailbox)} :
         IF raised
         THEN rs_emails' = << >>
         ELSE \E found \in SemanticSearchResults(rs_collection, n_results) :
                 rs_emails' = FormattedEmails(found, passing)
    /\ rs_pc' = "returned"
    /\ UNCHANGED rs_collection
    /\ UNCHANGED notRagSearch

\* The caller takes the result.
RagSearchDone ==
    /\ rs_pc = "returned"
    /\ rs_pc' = "idle"
    /\ rs_emails' = << >>
    /\ UNCHANGED rs_collection
    /\ UNCHANGED notRagSearch

NextRagSearch ==
    \/ \E m \in {Mailbox[i] : i \in 1..Len(Mailbox)} : RagIndexEmail(m)
    \/ RagSearch
    \/ RagSearchDone

(***************************************************************************)
(*                            Specifications                               *)
(***************************************************************************)

InitAgent == AgentInit /\ PlanIdle /\ AppIdle /\ WfIdle /\ RetryIdle /\ SvcIdle
       /\ GmailIdle /\ VsIdle /\ DetIdle /\ QueryIdle /\ DecisionIdle /\ ChunkIdle
       /\ CategorizeIdle /\ AuthIdle /\ RagSearchIdle
InitPlan == PlanInit /\ AgentIdle /\ AppIdle /\ WfIdle /\ RetryIdle /\ SvcIdle
       /\ GmailIdle /\ VsIdle /\ DetIdle /\ QueryIdle /\ DecisionIdle /\ ChunkIdle
       /\ CategorizeIdle /\ AuthIdle /\ RagSearchIdle
InitApp == AppInit /\ AgentIdle /\ PlanIdle /\ WfIdle /\ RetryIdle /\ SvcIdle
       /\ GmailIdle /\ VsIdle /\ DetIdle /\ QueryIdle /\ DecisionIdle /\ ChunkIdle
       /\ CategorizeIdle /\ AuthIdle /\ RagSearchIdle
InitMemory == AppIdle /\ AgentIdle /\ PlanIdle /\ WfIdle /\ RetryIdle /\ SvcIdle
       /\ GmailIdle /\ VsIdle /\ DetIdle /\ QueryIdle /\ DecisionIdle /\ ChunkIdle
       /\ CategorizeIdle /\ AuthIdle /\ RagSearchIdle
InitWorkflow == WfInit /\ AgentIdle /\ PlanIdle /\ AppIdle /\ RetryIdle /\ SvcIdle
       /\ GmailIdle /\ VsIdle /\ DetIdle /\ QueryIdle /\ DecisionIdle /\ ChunkIdle
       /\ CategorizeIdle /\ AuthIdle /\ RagSearchIdle
InitRetry == RetryInit /\ AgentIdle /\ PlanIdle /\ AppIdle /\ WfIdle /\ SvcIdle
       /\ GmailIdle /\ VsIdle /\ DetIdle /\ QueryIdle /\ DecisionIdle /\ ChunkIdle
       /\ CategorizeIdle /\ AuthIdle /\ RagSearchIdle
InitService == SvcInit /\ AgentIdle /\ PlanIdle /\ AppIdle /\ WfIdle /\ RetryIdle
       /\ GmailIdle /\ VsIdle /\ DetIdle /\ QueryIdle /\ DecisionIdle /\ ChunkIdle
       /\ CategorizeIdle /\ AuthIdle /\ RagSearchIdle
InitGmail == GmailInit /\ AgentIdle /\ PlanIdle /\ AppIdle /\ WfIdle /\ RetryIdle
       /\ SvcIdle /\ VsIdle /\ DetIdle /\ QueryIdle /\ DecisionIdle /\ ChunkIdle
       /\ CategorizeIdle /\ AuthIdle /\ RagSearchIdle
InitVectorStore == VsInit /\ AgentIdle /\ PlanIdle /\ AppIdle /\ WfIdle /\ RetryIdle
       /\ SvcIdle /\ GmailIdle /\ DetIdle /\ QueryIdle /\ DecisionIdle /\ ChunkIdle
       /\ CategorizeIdle /\ AuthIdle /\ RagSearchIdle
InitDetails == DetInit /\ AgentIdle /\ PlanIdle /\ AppIdle /\ WfIdle /\ RetryIdle
       /\ SvcIdle /\ GmailIdle /\ VsIdle /\ QueryIdle /\ DecisionIdle /\ ChunkIdle
       /\ CategorizeIdle /\ AuthIdle /\ RagSearchIdle
InitQuery == QueryInit /\ AgentIdle /\ PlanIdle /\ AppIdle /\ WfIdle /\ RetryIdle
       /\ SvcIdle /\ GmailIdle /\ VsIdle /\ DetIdle /\ DecisionIdle /\ ChunkIdle
       /\ CategorizeIdle /\ AuthIdle /\ RagSearchIdle
InitDecision == DecisionInit /\ AgentIdle /\ PlanIdle /\ AppIdle /\ WfIdle /\ RetryIdle
       /\ SvcIdle /\ GmailIdle /\ VsIdle /\ DetIdle /\ QueryIdle /\ ChunkIdle
       /\ CategorizeIdle /\ AuthIdle /\ RagSearchIdle
InitChunk == ChunkInit /\ AgentIdle /\ PlanIdle /\ AppIdle /\ WfIdle /\ RetryIdle
       /\ SvcIdle /\ GmailIdle /\ VsIdle /\ DetIdle /\ QueryIdle /\ DecisionIdle
       /\ CategorizeIdle /\ AuthIdle /\ RagSearchIdle
InitCategorize == CategorizeInit /\ AgentIdle /\ PlanIdle /\ AppIdle /\ WfIdle
       /\ RetryIdle /\ SvcIdle /\ GmailIdle /\ VsIdle /\ DetIdle /\ QueryIdle
       /\ DecisionIdle /\ ChunkIdle /\ AuthIdle /\ RagSearchIdle
InitAuth == AuthInit /\ AgentIdle /\ PlanIdle /\ AppIdle /\ WfIdle /\ RetryIdle
       /\ SvcIdle /\ GmailIdle /\ VsIdle /\ DetIdle /\ QueryIdle /\ DecisionIdle
       /\ ChunkIdle /\ CategorizeIdle /\ RagSearchIdle
InitPipeline == WfInit /\ AgentIdle /\ PlanIdle /\ AppIdle /\ RetryIdle /\ SvcIdle
       /\ GmailIdle /\ VsIdle /\ DetIdle /\ QueryIdle /\ DecisionIdle /\ ChunkIdle
       /\ CategorizeIdle /\ AuthIdle /\ RagSearchIdle
InitRagSearch == RagSearchInit /\ AgentIdle /\ PlanIdle /\ AppIdle /\ WfIdle
       /\ RetryIdle /\ SvcIdle /\ GmailIdle /\ VsIdle /\ DetIdle /\ QueryIdle
       /\ DecisionIdle /\ ChunkIdle /\ CategorizeIdle /\ AuthIdle

SpecAgent == InitAgent /\ [][NextAgent]_vars
SpecPlan == InitPlan /\ [][NextPlan]_vars
SpecApp == InitApp /\ [][NextApp]_vars
SpecMemory == InitMemory /\ [][NextMemory]_vars
SpecWorkflow == InitWorkflow /\ [][NextWorkflow]_vars
SpecRetry == InitRetry /\ [][NextRetry]_vars
SpecService == InitService /\ [][NextService]_vars
SpecGmail == InitGmail /\ [][NextGmail]_vars
SpecVectorStore == InitVectorStore /\ [][NextVectorStore]_vars
SpecDetails == InitDetails /\ [][NextDetails]_vars
SpecQuery == InitQuery /\ [][NextQuery]_vars
SpecDecision == InitDecision /\ [][NextDecision]_vars
SpecChunk == InitChunk /\ [][NextChunk]_vars
SpecCategorize == InitCategorize /\ [][NextCategorize]_vars
SpecAuth == InitAuth /\ [][NextAuth]_vars
SpecPipeline == InitPipeline /\ [][NextPipeline]_vars
SpecRagSearch == InitRagSearch /\ [][NextRagSearch]_vars

\* The service with its loops scheduled fairly.
SpecServiceFair == SpecService /\ \A k \in 1..MaxStarts : WF_vars(SvcLoopStep(k))

(***************************************************************************)
(*                     Properties of BaseAgent.run                         *)
(***************************************************************************)

\* A decision call that raised is outside "sequences of LLM decisions".
YieldedFinalAnswer == a_return.answer \in {"llm_answer", "fallback_answer"}

\* C1: run performs at most 10 turns, and a run none of whose turns yielded a
\* final answer returns the canned exhausted-iterations answer with
\* completed = false, whatever the LLM decided and the tools did.
C1_TurnCapAndExhaustedAnswer ==
    /\ iteration <= 10
    /\ (a_pc = "done" /\ ~YieldedFinalAnswer /\ a_raised # "decision_call")
          => /\ a_return.answer = "exhausted_iterations"
             /\ a_return.completed = FALSE

\* C2: once the forced-synthesis decision call has been issued the run ends
\* in that turn (with forced_stop set), so no run issues a second one.
C2_ForcedSynthesisEndsRun ==
    /\ forced_calls <= 1
    /\ (forced_calls = 1 /\ a_pc # "forced" /\ a_raised = "none")
          => (a_pc = "done" /\ a_return.forced_stop)

\* C3: a failing tool call (unregistered tool, or a tool that raises) is
\* recorded as an error string and never makes run end with its
\* internal-error result, neither in the turn of the call nor in a later one.
C3_ToolFailureNeverEndsRun ==
    /\ a_raised # "tool_result"
    /\ \A k \in 1..Len(tool_results) :
          tool_results[k].tool \notin available_tools
              => tool_results[k].result = "error_string"

\* C14: whatever way run ends (final answer, forced stop, exhausted
\* iterations, internal error), the value it returns carries the tool-call
\* records, the thought trace, the turn count and the completion flag.
C14_EveryReturnCarriesTrace ==
    a_pc = "done" =>
        {"tool_calls", "thoughts", "iterations", "completed"} \subseteq a_return.keys

\* C15: a reply to a decision call (ordinary or forced) that is not JSON, or
\* is JSON but not a decision, ends the run at once with the fallback final
\* answer: the run is over in the state that follows the reply, so no tool
\* runs and no decision call follows.
C15_MalformedReplyEndsRun ==
    a_reply \in {"malformed", "json_without_action"} =>
        /\ a_pc = "done"
        /\ a_return.answer = "fallback_answer"
        /\ a_return.completed
        /\ a_tool = "-"

(***************************************************************************)
(*                 Properties of ExecutionPlanner.execute_plan             *)
(***************************************************************************)

\* A task id counts as completed when a task carrying it has completed.
IdCompleted(d) == \E j \in 1..Len(tasks) : tasks[j].task_id = d /\ tasks[j].status = "completed"

\* C4: a task is running only if every task id of its dependency list has
\* status completed.
C4_RunningOnlyAfterDependencies ==
    \A i \in 1..Len(tasks) :
        tasks[i].status = "running" => \A d \in tasks[i].dependencies : IdCompleted(d)

\* C4 witness: C depends on A and B, both completed, and C is running.
C4_Witness ==
    /\ Len(tasks) = 3
    /\ tasks[1].task_id = "A" /\ tasks[1].status = "completed"
    /\ tasks[2].task_id = "B" /\ tasks[2].status = "completed"
    /\ tasks[3].task_id = "C" /\ tasks[3].dependencies = {"A", "B"}
    /\ tasks[3].status = "running"

C6_SuccessIffAllCompleted ==
    p_pc = "returned" =>
        (final_result.success <=> \A i \in 1..Len(tasks) : tasks[i].status = "completed")

\* C27: a wave is formed of every task that is pending with all its
\* dependencies completed, and only while no task of an earlier wave is still
\* running; the wave ends when each of its tasks has been started and has
\* completed or failed; a task that fails changes no other task.
C27_WavesRunWholeAndInTurn ==
    [][/\ (p_pc = "loop" /\ p_pc' = "wave") =>
             /\ ready_tasks' = {i \in 1..Len(tasks) :
                                  /\ tasks[i].status = "pending"
                                  /\ \A d \in tasks[i].dependencies : IdCompleted(d)}
             /\ \A i \in 1..Len(tasks) : tasks[i].status # "running"
       /\ (p_pc = "wave" /\ p_pc' = "loop") =>
             \A i \in ready_tasks :
                i \in p_ran /\ tasks[i].status \in {"completed", "failed"}
       /\ p_pc = "wave" =>
             \A i \in 1..Len(tasks) :
                (tasks[i].status = "running" /\ tasks'[i].status = "failed") =>
                   \A j \in (1..Len(tasks)) \ {i} : tasks'[j] = tasks[j]]_vars

\* C27 witness: A and B formed one wave; B failed, A completed, and C, which
\* needed only A, was started in the next wave.
C27_Witness ==
    /\ Len(tasks) = 3
    /\ tasks[1].task_id = "A" /\ tasks[1].dependencies = {} /\ tasks[1].status = "completed"
    /\ tasks[2].task_id = "B" /\ tasks[2].dependencies = {} /\ tasks[2].status = "failed"
    /\ tasks[3].task_id = "C" /\ tasks[3].dependencies = {"A"}
    /\ tasks[3].status = "running"
    /\ ready_tasks = {3}

(***************************************************************************)
(*                 Claims about the memory and the stores                  *)
(***************************************************************************)

\* C7: after any sequence of add_message calls the live message list holds
\* fewer messages than the summarization threshold (the add that reaches the
\* threshold leaves the 10 most recent messages and a summary).
C7_LiveListBelowThreshold ==
    /\ Len(messages) < summarization_threshold
    /\ message_count >= summarization_threshold => summary # "None"

\* Some pass begun before pass p added every document of message m, and
\* they are all still in the collection.
PreviouslyIndexed(p, m) ==
    \E k \in 1..(pass[p].no - 1) :
       LET own == {d \in collection : d.original_email_id = m /\ d.doc_id[3] = k}
       IN /\ own # {}
          /\ \A d \in own : d.is_chunked => Cardinality(own) = d.total_chunks

\* C8: when a pass comes to a message that an earlier pass indexed
\* successfully, whose documents remain, and the existence check can read
\* the collection, the message is counted as skipped and no document is
\* added, for short and for chunked bodies.
C8_IndexedMessageSkippedLater ==
    [][\A p \in Passes :
          ( /\ pass[p].pc = "message"
            /\ pass[p].pos <= Len(pass[p].msgs)
            /\ pass'[p] # pass[p]
            /\ HandleValid("indexer")
            /\ PreviouslyIndexed(p, pass[p].msgs[pass[p].pos]) )
          => ( /\ pass'[p].skipped_count = pass[p].skipped_count + 1
               /\ collection' = collection )]_vars

\* C19: an exception while one message is processed is counted as an error
\* and the loop goes on with the next message; a pass that comes to the end
\* of its listing has dealt with every listed message, advances
\* last_index_time and returns its statistics; a pass left by an exception
\* raises to its caller and neither returns statistics nor advances the time.
C19_MessageErrorsDoNotAbortPass ==
    [][\A p \in Passes :
          /\ pass'[p].error_count > pass[p].error_count =>
                /\ pass'[p].error_count = pass[p].error_count + 1
                /\ pass'[p].pc = "message"
                /\ pass'[p].pos = pass[p].pos + 1
          /\ (pass[p].pc = "message" /\ pass'[p].pc = "idle") =>
                /\ stats'[p].returned /\ ~stats'[p].raised
                /\ stats'[p].total_fetched = Len(pass[p].msgs)
                /\ stats'[p].errors = pass[p].error_count
                /\ stats'[p].indexed + stats'[p].skipped + stats'[p].errors
                      = stats'[p].total_fetched
                /\ last_index_time' = last_index_time + 1
          /\ (stats'[p].raised /\ passes_begun' # passes_begun /\ stats'[p] # stats[p]) =>
                /\ ~stats'[p].returned
                /\ last_index_time' = last_index_time
                /\ pass' = pass]_vars

C19_Witness ==
    \E p \in Passes :
       /\ stats[p].returned
       /\ stats[p].total_fetched = 2
       /\ stats[p].errors = 1
       /\ stats[p].indexed = 1

\* C36: while a pass works through its listing the three counters add up to
\* the number of messages dealt with, and every statistics record returned
\* by run_indexing has total_fetched = indexed + skipped + errors.
C36_CountersPartitionTheListing ==
    \A p \in Passes :
       /\ pass[p].pc \in {"message", "summary_retry"} =>
             pass[p].indexed_count + pass[p].skipped_count + pass[p].error_count
                = pass[p].pos - 1
       /\ stats[p].returned =>
             stats[p].total_fetched = stats[p].indexed + stats[p].skipped + stats[p].errors

C36_Witness ==
    \E p \in Passes :
       /\ stats[p].returned
       /\ stats[p].total_fetched = 2
       /\ stats[p].indexed = 1
       /\ stats[p].skipped = 1
       /\ stats[p].errors = 0

C9_ClearDbNeedsExactYes ==
    [][cli_pc = "confirm" =>
         /\ (Stores' # Stores \/ Memory' # Memory)
               => (cli_line' # NoLine /\ Lower(Strip(cli_line')) = Yes)
         /\ (cli_line' # NoLine /\ Lower(Strip(cli_line')) # Yes)
               => (Stores' = Stores /\ Memory' = Memory /\ cli_pc' = "prompt")]_vars

\* A near miss ("y") was typed at the confirmation prompt while both stores
\* held data, and the loop is back at its prompt.
C9_Witness ==
    /\ cli_mode \in {"fixed", "autonomous"}
    /\ cli_pc = "prompt"
    /\ cli_line = << "y" >>
    /\ collection # {}
    /\ storage_file # {}

\* The steps that are a call of EmailAssistant.clear_vector_db.
ClearVectorDbStep ==
    \/ ApiClearVectorDb
    \/ /\ cli_mode = "fixed"
       /\ cli_pc = "confirm"
       /\ cli_line' # NoLine
       /\ Lower(Strip(cli_line')) = Yes

\* The steps that are a call of AutonomousEmailAgent.clear_email_storage.
ClearEmailStorageStep == ApiClearEmailStorage \/ CliClearStorage

\* C10: clear_vector_db empties the Vector Store and every full-body record
\* stays retrievable by id; clear_all empties the Email Full-Body Storage
\* (the map of the object it is called on and the file) and leaves the set
\* of Vector Store documents as it was.
C10_ClearsAreIndependent ==
    [][ /\ ClearVectorDbStep =>
            /\ collection' = {}
            /\ storage_file' = storage_file
            /\ \A inst \in ESInstances : \A id \in es_storage[inst] :
                   get_email(Stores', inst, id) = id
        /\ ClearEmailStorageStep =>
            /\ es_storage'["agent"] = {}
            /\ storage_file' = {}
            /\ collection' = collection ]_vars

\* clear_vector_db ran through the memory manager's store and the indexer has
\* added documents since; then clear_all emptied the file while those
\* documents are in the collection and the indexer's map holds its records.
C10_Witness ==
    /\ cli_mode = "library"
    /\ stale_handles = {"agent"}
    /\ collection # {}
    /\ storage_file = {}
    /\ es_storage["indexer"] # {}

(***************************************************************************)
(*                    Properties of EmailAssistant.run                     *)
(***************************************************************************)

DocumentedPaths ==
    { << "understand_query", "synthesize_answer" >>,
      << "understand_query", "plan_search", "retrieve_with_rag", "synthesize_answer" >>,
      << "understand_query", "plan_search", "execute_parallel", "synthesize_answer" >> }

Visited(node) == \E i \in 1..Len(w_path) : w_path[i] = node

\* C11: a run that has reached END went along one of the three documented
\* paths, through plan_search iff needs_search or needs_rag and through
\* retrieve_with_rag iff needs_rag, and its state has completed = true;
\* before END the nodes run so far are a prefix of a documented path.
C11_WorkflowFollowsDocumentedPath ==
    /\ \E path \in DocumentedPaths :
          Len(w_path) <= Len(path) /\ w_path = SubSeq(path, 1, Len(w_path))
    /\ w_pc \in {"END", "returned"} =>
          /\ w_path \in DocumentedPaths
          /\ Visited("plan_search") <=> (w_state.needs_search \/ w_state.needs_rag)
          /\ Visited("retrieve_with_rag") <=> w_state.needs_rag
          /\ w_state.completed

\* A run whose understand_query and synthesize_answer both failed: it went
\* through retrieve_with_rag and ended with the apology, completed.
C11_Witness ==
    /\ w_pc = "END"
    /\ w_path = << "understand_query", "plan_search", "retrieve_with_rag", "synthesize_answer" >>
    /\ w_state.final_answer = "apology"
    /\ w_state.rag_response = "None"
    /\ w_state.completed

\* C33: when understand_query has ended the two flags are equal; no run is
\* routed to execute_parallel, and the state the response is built from has
\* no search results.
C33_ExecuteParallelNeverEntered ==
    /\ Visited("understand_query") => (w_state.needs_search <=> w_state.needs_rag)
    /\ w_pc # "execute_parallel"
    /\ ~Visited("execute_parallel")
    /\ w_pc \in {"END", "returned"} => w_state.search_results = 0

C33_Witness ==
    /\ w_pc = "returned"
    /\ w_path = << "understand_query", "plan_search", "retrieve_with_rag", "synthesize_answer" >>
    /\ w_state.needs_rag /\ w_state.needs_search
    /\ w_state.execution_plan = "plan"

(***************************************************************************)
(*                  Properties of the AzureOpenAIClient calls              *)
(***************************************************************************)

\* C12: a call makes at most 3 attempts; every attempt before the last one
\* failed; a call returns exactly when its last attempt succeeded; and when
\* 3 attempts have failed the call has raised, the caller getting an
\* exception and no value.
C12_AtMostThreeAttempts ==
    /\ Len(r_outcomes) <= 3
    /\ \A i \in 1..(Len(r_outcomes) - 1) : r_outcomes[i] = "fail"
    /\ r_pc = "returned" <=> (r_outcomes # << >> /\ r_outcomes[Len(r_outcomes)] = "ok")
    /\ r_pc = "raised" <=> r_outcomes = << "fail", "fail", "fail" >>
    /\ r_pc = "raised" => r_result = "RetryError"
    /\ r_pc = "attempt" => Len(r_outcomes) < 3

\* generate_response raised after three failed attempts.
C12_Witness ==
    /\ r_pc = "raised"
    /\ r_op.name = "generate_response"
    /\ r_outcomes = << "fail", "fail", "fail" >>
    /\ r_waits = << 1, 2 >>

(***************************************************************************)
(*            Properties of EmailIndexerService.start / stop               *)
(***************************************************************************)

\* C13: a loop that was alive when stop() was called starts no pass after
\* that, and its first wake after the stop ends it, whatever was called in
\* between (a new start() included).
C13_StoppedLoopExitsAtNextWake ==
    \A k \in 1..MaxStarts :
        svc_loops[k].stopped =>
            /\ ~svc_loops[k].pass_after_stop
            /\ svc_loops[k].woke_after_stop => svc_loops[k].pc = "exited"

\* C31: once every start() call made has finished, by returning or by
\* raising, the running flag is set only if a recurring loop is scheduled or
\* alive.
C31_RunningOnlyWithLoop ==
    ( /\ svc_started > 0
      /\ \A k \in 1..MaxStarts : svc_loops[k].pc # "initial_pass"
      /\ is_running ) =>
        \E k \in 1..MaxStarts :
           svc_loops[k].pc \in {"scheduled", "sleeping", "pass", "error_sleep"}

\* C28: a pass that fails inside the recurring loop does not end the loop.
\* The loop sleeps its five minutes, comes round to the test of the running
\* flag, waits for the next interval and, unless the flag was cleared in the
\* meantime, runs a pass again.
C28_FailedPassDoesNotEndLoop ==
    /\ \A k \in 1..MaxStarts :
          (svc_loops[k].pc = "error_sleep") ~> (svc_loops[k].pc = "pass" \/ ~is_running)
    /\ [][\A k \in 1..MaxStarts :
            /\ (svc_loops[k].pc = "error_sleep" /\ svc_loops'[k].pc # "error_sleep") =>
                  svc_loops'[k].pc = IF is_running THEN "sleeping" ELSE "exited"
            /\ (svc_loops[k].pc = "pass" /\ svc_loops'[k].pc = "exited") => ~is_running
            /\ (svc_loops[k].pc = "sleeping" /\ svc_loops'[k].pc # "sleeping" /\ is_running) =>
                  svc_loops'[k].pc = "pass"]_vars

C28_Witness ==
    \E k \in 1..MaxStarts :
       /\ svc_loops[k].pc = "error_sleep"
       /\ is_running
       /\ ~svc_loops[k].stopped

(***************************************************************************)
(*                       Properties of GmailClient                         *)
(***************************************************************************)

\* C16: no operation raises into its caller, whatever the provider call
\* did; after a failed provider call list_messages gives the empty list and
\* get_message the absent value; a client without a service answers
\* empty/absent without a provider call.
C16_NoProviderFailurePropagates ==
    g_pc = "returned" =>
        /\ g_result.kind # "raised"
        /\ (g_failure # "none" /\ g_op = "list_messages") => g_result = EmptyList
        /\ (g_failure # "none" /\ g_op = "get_message") => g_result = Absent
        /\ ~service => /\ g_provider_calls = 0
                       /\ g_result \in {EmptyList, Absent}

(***************************************************************************)
(*                       Properties of VectorStore                         *)
(***************************************************************************)

\* C17: each of the seven operations runs against a valid collection: a
\* handle left dangling by another instance's clear_all_data is replaced
\* before the operation uses it.
C17_OperationRunsOnValidCollection ==
    vs_last.op \in VectorStoreOps =>
        /\ vs_last.handle_valid
        /\ HandleValid(vs_last.inst)

(***************************************************************************)
(*                  Properties of _get_email_details                       *)
(***************************************************************************)

\* C18: a response that is not the error carries the id without its chunk
\* suffix; when Email Full-Body Storage held the clean id the response comes
\* from it, complete, with the stored body and no mailbox call; the mailbox
\* is called only on a storage miss; the error is given only when neither
\* had the email.
C18_StorageBeforeMailbox ==
    d_last.asked # << >> =>
        /\ ~d_last.error => /\ Len(d_last.email_id) = 1
                            /\ d_last.email_id[1] = d_last.asked[1]
        /\ d_last.storage_held =>
               /\ d_last.source = "email_storage"
               /\ d_last.complete
               /\ d_last.body = d_last.asked[1]
               /\ ~d_last.mailbox_called
        /\ d_last.mailbox_called => ~d_last.storage_held
        /\ d_last.error => (d_last.mailbox_called /\ ~d_last.storage_held)

(***************************************************************************)
(*                     Properties of process_query                         *)
(***************************************************************************)

\* C21 as stated: process_query never raises; an error in any of its three
\* stages comes back as an answer carrying the error text; without an error
\* the turn is recorded exactly once, after the agent loop and before the
\* return.
C21_EveryErrorBecomesErrorAnswer ==
    /\ q_ret.raised = FALSE
    /\ q_learn_calls <= 1
    /\ q_learn_calls = 1 => q_response # NoReturn
    /\ q_pc = "returned" =>
          /\ q_failed # "none" => q_ret.answer \in {"error_text", "internal_error"}
          /\ q_failed = "none" => /\ q_learn_calls = 1
                                  /\ q_ret.answer = q_response.answer

(***************************************************************************)
(*                    Properties of the DecisionEngine                     *)
(***************************************************************************)

\* C22: analyze_query always returns a result, in which needs_search equals
\* needs_rag; when the semantic-analysis LLM call raised, or any other
\* analysis step failed, both are true.
C22_AnalysisFailsSafe ==
    de_pc = "returned" =>
       /\ de_result.needs_rag \in {"True", "False", "'yes'"}
       /\ de_result.needs_search = de_result.needs_rag
       /\ de_failed # "none" =>
             (de_result.needs_rag = "True" /\ de_result.needs_search = "True")

C22_Witness ==
    /\ de_pc = "returned"
    /\ de_reply.kind = "raises"
    /\ ~de_query.matches_pattern
    /\ de_failed = "semantic"
    /\ de_result.needs_rag = "True"
    /\ "yesterday" \in de_query.words

\* Local midnight at the start of the day of t.
StartOfDay(t) == [day |-> t.day, hour |-> 0, minute |-> 0, second |-> 0, microsecond |-> 0]

\* C26: for a query that mentions yesterday and not today, the time
\* constraint runs from the start of yesterday to the start of today, both
\* exactly local midnight.
C26_YesterdayIsMidnightToMidnight ==
    (/\ de_pc = "returned"
     /\ de_failed \in {"none", "semantic"}
     /\ "yesterday" \in de_query.words
     /\ "today" \notin de_query.words) =>
        /\ de_result.time_constraint.description = "yesterday"
        /\ de_result.time_constraint.after = StartOfDay(MinusDays(de_query.now, 1))
        /\ de_result.time_constraint.before = StartOfDay(de_query.now)

(***************************************************************************)
(*                        Properties of chunk_text                         *)
(***************************************************************************)

\* The first chunk followed by what each later chunk holds after its first
\* overlap characters.
RECURSIVE NonOverlapping(_, _, _)
NonOverlapping(chunks, overlap, k) ==
    IF k > Len(chunks) THEN << >>
    ELSE (IF k = 1 THEN chunks[1] ELSE Slice(chunks[k], overlap, Len(chunks[k])))
         \o NonOverlapping(chunks, overlap, k + 1)

\* C23: a non-empty text no longer than chunk_size yields the one chunk
\* equal to it; for a longer text no chunk is longer than chunk_size + 100
\* and the chunks' non-overlapping regions, concatenated, are the text.
C23_ChunksReconstructText ==
    ch_pc = "returned" =>
       LET text == ch_input.text
       IN  /\ (text # << >> /\ Len(text) <= ch_input.chunk_size) => ch_chunks = << text >>
           /\ Len(text) > ch_input.chunk_size =>
                 /\ \A k \in 1..Len(ch_chunks) :
                       Len(ch_chunks[k]) <= ch_input.chunk_size + 100
                 /\ NonOverlapping(ch_chunks, ch_input.overlap, 1) = text

\* C34: every call of chunk_text with chunk_size > overlap >= 0 returns: its
\* loop is never found still running when its iterations are used up.
C34_ChunkTextTerminates ==
    (ch_input.chunk_size > ch_input.overlap /\ ch_input.overlap >= 0) => ch_pc # "looping"

(***************************************************************************)
(*                   Properties of the indexed documents                   *)
(***************************************************************************)

\* The documents pass number no added for message m.
DocumentsOf(docs, no, m) == {d \in docs : d.doc_id[3] = no /\ d.doc_id[2][1] = m}

\* C24: every document of the collection carries the id of its source email
\* as original_email_id; a message indexed with a body of more than 1500
\* characters has given at least 2 documents, all chunked, with one
\* total_chunks and the chunk indices 0..total_chunks-1, and a message with
\* a shorter body exactly one document, not chunked.
C24_ChunkMetadataLinkage ==
    /\ [](\A d \in collection : d.original_email_id = d.doc_id[2][1])
    /\ [][\A p \in Passes :
            pass'[p].indexed_count = pass[p].indexed_count + 1 =>
               LET m   == pass[p].msgs[pass[p].pos]
                   new == DocumentsOf(collection', pass[p].no, m)
               IN  /\ \A d \in new : d.original_email_id = m
                   /\ Len(BodyText(m)) > 1500 =>
                         /\ Cardinality(new) >= 2
                         /\ \A d \in new : d.is_chunked /\ d.total_chunks = Cardinality(new)
                         /\ {d.chunk_index : d \in new} = 0..(Cardinality(new) - 1)
                   /\ Len(BodyText(m)) <= 1500 =>
                         /\ Cardinality(new) = 1
                         /\ \A d \in new : ~d.is_chunked]_vars

C24_Witness ==
    \E p \in Passes :
       /\ pass[p].indexed_count = 2
       /\ Cardinality(DocumentsOf(collection, pass[p].no, "m2")) = 2
       /\ Cardinality(DocumentsOf(collection, pass[p].no, "m1")) = 1

\* C30: while the pass awaited by a command and the service's own pass are
\* both under way on one indexer, no message has documents in the collection
\* from both of them.
C30_NoMessageIndexedByBothPasses ==
    (pass["cmd"].pc # "idle" /\ pass["bg"].pc # "idle") =>
       \A i \in 1..Len(Mailbox) :
          ~ ( /\ DocumentsOf(collection, pass["cmd"].no, Mailbox[i]) # {}
              /\ DocumentsOf(collection, pass["bg"].no, Mailbox[i]) # {} )

(***************************************************************************)
(*                     Properties of _categorize_email                     *)
(***************************************************************************)

\* The buckets one of whose keywords occurs in the lowercased subject and
\* body.
MatchingBuckets(input) ==
    LET text == Lower(input.subject \o << " " >> \o input.body)
    IN  {k \in 1..Len(categories) :
           \E i \in 1..Len(categories[k].keywords) :
              Contains(text, categories[k].keywords[i])}

BucketOrder == << "placement", "academic", "meeting", "notification", "personal", "work" >>

\* C25: the category is the first bucket, in the order placement, academic,
\* meeting, notification, personal, work, with a keyword in the lowercased
\* subject and body; only when no bucket matches do the Gmail category
\* labels decide, and without a recognized label the category is general.
C25_FirstMatchingBucketWins ==
    cat_pc = "returned" =>
       LET matching == MatchingBuckets(cat_input)
           recognized == cat_input.labels \cap
                           {"CATEGORY_PROMOTIONS", "CATEGORY_SOCIAL", "CATEGORY_UPDATES"}
       IN  /\ matching # {} =>
                 cat_result = BucketOrder[CHOOSE k \in matching : \A j \in matching : k <= j]
           /\ cat_result \in {"promotional", "social", "updates"} =>
                 (matching = {} /\ recognized # {})
           /\ (matching = {} /\ recognized = {}) => cat_result = "general"

C25_Witness ==
    /\ cat_pc = "returned"
    /\ Cardinality(MatchingBuckets(cat_input)) >= 2
    /\ "CATEGORY_SOCIAL" \in cat_input.labels
    /\ cat_result = "academic"

(***************************************************************************)
(*                      Properties of _authenticate                        *)
(***************************************************************************)

\* C29: when the cached credentials are absent or invalid, _authenticate
\* ends with valid credentials, or, the client-secrets file missing, with no
\* active service; a client has an active service only with valid
\* credentials, and only valid credentials are written to the token file.
C29_ServiceOnlyWithValidCredentials ==
    /\ au_service => (au_creds.present /\ au_creds.valid)
    /\ au_written \in {"none", "valid"}
    /\ au_token.kind = "creds" /\ au_written # "none" => au_token.creds.valid
    /\ (au_pc = "done" /\ au_in_block) =>
          \/ au_service /\ au_creds.valid
          \/ ~au_service /\ ~au_secrets

\* C32: the EmailStorage objects of the process hold the same records, so
\* what one stored every other returns and what one cleared none returns;
\* and a mutation writes to the storage file no record besides the one it
\* stores, so nothing cleared comes back.
C32_StorageInstancesAgree ==
    /\ [](\A i \in ESInstances, j \in ESInstances :
             \A i_m \in 1..Len(Mailbox) :
                get_email(Stores, i, Mailbox[i_m]) = get_email(Stores, j, Mailbox[i_m]))
    /\ [][Cardinality(storage_file' \ storage_file) <= 1]_vars

(***************************************************************************)
(*                    Properties of search_emails_rag                      *)
(***************************************************************************)

\* C35: no two entries of a result list of search_emails_rag carry the same
\* email_id.
C35_EachEmailReturnedOnce ==
    rs_pc = "returned" =>
       \A i, j \in 1..Len(rs_emails) :
          i # j => rs_emails[i].email_id # rs_emails[j].email_id
====
